---- MODULE Spec2Model ----
(***************************************************************************)
(* A model of abTEM's ensemble-array engine.                               *)
(*                                                                         *)
(* Part 1 (this section): HasArray of abtem/core/array.py, the structural  *)
(* operations get_items / expand_dims / squeeze on one array object.       *)
(*                                                                         *)
(* Python values are encoded as follows.                                   *)
(*   - a tuple or list is a sequence; Python positions are 0-based and     *)
(*     are converted where a sequence is indexed;                          *)
(*   - None is the empty sequence <<>>, a present value v is <<v>>;        *)
(*   - an index item is a record [k, i, start, stop], k one of "int",      *)
(*     "slice", "ellipsis";                                                *)
(*   - an axis metadata entry is a record [type, values];                  *)
(*   - a value kept as an attribute is a record [t, v]: t one of "none",   *)
(*     "num", "str", "tuple", "list", "dict", v the sequence of its parts; *)
(*   - an array is its shape, its laziness and a token for its contents;   *)
(*     a lazy array also says whether evaluating its task graph raises.    *)
(***************************************************************************)
EXTENDS Integers, Sequences, FiniteSets, TLC

VARIABLES
    obj,        \* the array object the structural operations work on
    wrappers,   \* the live array objects of a compute call, by identity
    waves,      \* a Waves object of abtem/waves/waves.py
    store,      \* the zarr container at the url written to and read from
    sliced,     \* a sliced structure of abtem/slicing.py
    grid,       \* the array and arguments of a projection call
    ms,         \* the state of a transition_potential_multislice call
    last        \* the record of the call just made

vars == <<obj, wrappers, waves, store, sliced, grid, ms, last>>

\* The variables the array operations leave alone, absent (None) for them.
others == <<sliced, grid, ms>>

InitOthers == sliced = <<>> /\ grid = <<>> /\ ms = <<>>

-----------------------------------------------------------------------------
(* Bounds of the model.                                                    *)

\* largest number of ensemble axes of an object
MaxEns == 2
\* largest length of an ensemble axis at construction
MaxDim == 2
\* integer indices range over -MaxIdx .. MaxIdx
MaxIdx == 1

-----------------------------------------------------------------------------
(* Python and numpy primitives.                                            *)

Min(a, b) == IF a < b THEN a ELSE b
Max(a, b) == IF a < b THEN b ELSE a

Range(s) == {s[i] : i \in 1..Len(s)}

\* The index sequence <<1, ..., n>>.
Iota(n) == [i \in 1..n |-> i]

IntItem(i) == [k |-> "int", i |-> i, start |-> <<>>, stop |-> <<>>]
SliceItem(a, b) == [k |-> "slice", i |-> 0, start |-> a, stop |-> b]
EllipsisItem == [k |-> "ellipsis", i |-> 0, start |-> <<>>, stop |-> <<>>]

\* slice.indices(n) for a step of 1: the first selected position (0-based).
SliceLo(n, it) ==
    IF it.start = <<>> THEN 0
    ELSE IF it.start[1] < 0 THEN Max(it.start[1] + n, 0)
    ELSE Min(it.start[1], n)

\* slice.indices(n) for a step of 1: one past the last selected position.
SliceHi(n, it) ==
    IF it.stop = <<>> THEN n
    ELSE IF it.stop[1] < 0 THEN Max(it.stop[1] + n, 0)
    ELSE Min(it.stop[1], n)

\* Number of elements a slice selects from an axis of length n.
SliceLen(n, it) == Max(SliceHi(n, it) - SliceLo(n, it), 0)

\* seq[slice] of a Python tuple.
PySlice(s, it) ==
    SubSeq(s, SliceLo(Len(s), it) + 1, SliceLo(Len(s), it) + SliceLen(Len(s), it))

\* list.insert(a, x): a negative position counts from the end, and the
\* position is clamped to the list.
PyInsert(s, a, x) ==
    LET n == Len(s)
        p == IF a < 0 THEN Max(a + n, 0) ELSE Min(a, n)
    IN  SubSeq(s, 1, p) \o <<x>> \o SubSeq(s, p + 1, n)

\* An integer index is valid on an axis of length n when -n <= i < n.
IntInRange(n, i) == -n <= i /\ i < n

\* numpy basic indexing array[items] on the shape: integers drop their axis,
\* slices keep it with the selected length, the axes after the items stay.
\* More items than axes, or an integer out of range, is an IndexError.
NumpyGetItemShape(shape, items) ==
    LET n == Len(items)
        kept == SelectSeq(Iota(Len(shape)),
                          LAMBDA p : p > n \/ items[p].k = "slice")
    IN  [p \in 1..Len(kept) |->
            IF kept[p] > n THEN shape[kept[p]]
            ELSE SliceLen(shape[kept[p]], items[kept[p]])]

NumpyGetItemRaises(shape, items) ==
    \/ Len(items) > Len(shape)
    \/ \E p \in 1..Len(items) :
          items[p].k = "int" /\ ~IntInRange(shape[p], items[p].i)

\* np.expand_dims(a, axis) with a tuple of non-negative or negative axes:
\* the axes are normalised against the rank of the result.
NumpyExpandAxes(rank, axis) ==
    [p \in 1..Len(axis) |->
        IF axis[p] < 0 THEN axis[p] + rank + Len(axis) ELSE axis[p]]

NumpyExpandDimsRaises(shape, axis) ==
    LET out == Len(shape) + Len(axis)
        ax == NumpyExpandAxes(Len(shape), axis)
    IN  \/ \E p \in 1..Len(ax) : ax[p] < 0 \/ ax[p] >= out
        \/ Cardinality(Range(ax)) # Len(ax)

NumpyExpandDimsShape(shape, axis) ==
    LET out == Len(shape) + Len(axis)
        ax == Range(NumpyExpandAxes(Len(shape), axis))
    IN  [p \in 1..out |->
            IF (p - 1) \in ax THEN 1
            ELSE shape[p - Cardinality({a \in ax : a < p - 1})]]

\* np.squeeze(a, axis): removes the named axes (all of length 1 here).
NumpySqueezeShape(shape, squeezed) ==
    LET kept == SelectSeq(Iota(Len(shape)), LAMBDA p : (p - 1) \notin squeezed)
    IN  [p \in 1..Len(kept) |-> shape[kept[p]]]

-----------------------------------------------------------------------------
(* Axis metadata (abtem.core.axes).                                        *)

UnknownAxis == [type |-> "UnknownAxis", values |-> <<>>]
OrdinalAxis(values) == [type |-> "OrdinalAxis", values |-> values]

IsOrdinalAxis(am) == am.type = "OrdinalAxis"

\* OrdinalAxis.__getitem__: the sub-selection of the labels.
OrdinalGetItem(am, it) == [am EXCEPT !.values = PySlice(am.values, it)]

-----------------------------------------------------------------------------
(* HasArray.                                                               *)

\* _base_dims of the concrete classes.
base_dims(cls) == 2

base_shape(o) == SubSeq(o.shape, Len(o.shape) - base_dims(o.cls) + 1, Len(o.shape))

ensemble_shape(o) == SubSeq(o.shape, 1, Len(o.shape) - base_dims(o.cls))

\* HasAxes._is_base_axis: does the list name one of the base axes.
_is_base_axis(o, axes) ==
    \E p \in 1..Len(axes) : axes[p] >= Len(ensemble_shape(o))

\* normalize_axes: negative axes count from the end of the shape.
normalize_axes(axis, shape) ==
    [p \in 1..Len(axis) |-> IF axis[p] < 0 THEN axis[p] + Len(shape) ELSE axis[p]]

Ok(o) == [raised |-> "none", obj |-> o]
Raise(e, o) == [raised |-> e, obj |-> o]

\* get_items, line 164: under keep_dims an integer k becomes slice(k, k + 1).
KeepDimsItems(items, keep_dims) ==
    IF keep_dims
    THEN [p \in 1..Len(items) |->
            IF items[p].k = "int"
            THEN SliceItem(<<items[p].i>>, <<items[p].i + 1>>)
            ELSE items[p]]
    ELSE items

AxisToRemoveFromOne(items) ==
    LET pos == SelectSeq(Iota(Len(items)), LAMBDA p : items[p].k = "int")
    IN  [p \in 1..Len(pos) |-> pos[p]]

\* get_items, lines 169-172: the 0-based positions of the integer items.
AxisToRemove(items) ==
    LET pos == SelectSeq(Iota(Len(items)), LAMBDA p : items[p].k = "int")
    IN  [p \in 1..Len(pos) |-> pos[p] - 1]

\* get_items, lines 179-192: the metadata loop over zip(metadata, items),
\* followed by the entries after the last indexed axis.
RECURSIVE MetadataLoop(_, _, _, _)
MetadataLoop(meta, items, removed, p) ==
    IF p > Min(Len(meta), Len(items)) THEN SubSeq(meta, p, Len(meta))
    ELSE IF (p - 1) \in removed THEN MetadataLoop(meta, items, removed, p + 1)
    ELSE IF IsOrdinalAxis(meta[p])
         THEN <<OrdinalGetItem(meta[p], items[p])>>
                  \o MetadataLoop(meta, items, removed, p + 1)
         ELSE <<meta[p]>> \o MetadataLoop(meta, items, removed, p + 1)

TooManyItemsForArray(o, items) == Len(items) > Len(o.shape)

\* get_items, line 166: more items than ensemble axes.
TooManyItems(o, items) == Len(items) > Len(ensemble_shape(o))

get_items(o, items0, keep_dims) ==
    LET items == KeepDimsItems(items0, keep_dims)
        axis_to_remove == AxisToRemove(items)
    IN  IF TooManyItems(o, items)
        THEN Raise("RuntimeError", o)
        ELSE IF \E p \in 1..Len(items) : items[p].k = "ellipsis"
        THEN Raise("NotImplementedError", o)
        ELSE IF _is_base_axis(o, axis_to_remove)
        THEN Raise("RuntimeError", o)
        ELSE IF NumpyGetItemRaises(o.shape, items)
        THEN Raise("IndexError", o)
        ELSE Ok([o EXCEPT
                 !.shape = NumpyGetItemShape(o.shape, items),
                 !.meta = MetadataLoop(o.meta, items, Range(axis_to_remove), 1)])

\* expand_dims, lines 222-223: the metadata entries are inserted one by one.
RECURSIVE InsertLoop(_, _, _, _)
InsertLoop(meta, axis, axis_metadata, p) ==
    IF p > Min(Len(axis), Len(axis_metadata)) THEN meta
    ELSE InsertLoop(PyInsert(meta, axis[p], axis_metadata[p]),
                    axis, axis_metadata, p + 1)

ExpandedMetadataFirstAxis(meta, axis, axis_metadata) ==
    InsertLoop(meta, SubSeq(axis, 1, 1), axis_metadata, 1)

\* expand_dims, lines 220-223: the metadata of the result.
ExpandedMetadata(meta, axis, axis_metadata) ==
    InsertLoop(meta, axis, axis_metadata, 1)

\* axis is None (<<>>) or <<the tuple of axes>>; axis_metadata likewise.
expand_dims(o, axis0, axis_metadata0) ==
    LET axis1 == IF axis0 = <<>> THEN <<0>> ELSE axis0[1]
        axis_metadata == IF axis_metadata0 = <<>>
                         THEN [p \in 1..Len(axis1) |-> UnknownAxis]
                         ELSE axis_metadata0[1]
        axis == normalize_axes(axis1, o.shape)
    IN  IF \E p \in 1..Len(axis) :
              axis[p] >= Len(ensemble_shape(o)) + Len(axis)
        THEN Raise("RuntimeError", o)
        ELSE IF NumpyExpandDimsRaises(o.shape, axis)
        THEN Raise("ValueError", o)
        ELSE Ok([o EXCEPT
                 !.shape = NumpyExpandDimsShape(o.shape, axis),
                 !.meta = ExpandedMetadata(o.meta, axis, axis_metadata)])

\* squeeze, line 241: the ensemble axes of length 1 that are named.
Squeezed(o, axis) ==
    LET shape == SubSeq(o.shape, 1, Len(o.shape) - Len(base_shape(o)))
    IN  {p - 1 : p \in {q \in 1..Len(shape) : shape[q] = 1 /\ (q - 1) \in axis}}

\* axis is None (<<>>) or <<the tuple of axes>>.
squeeze(o, axis0) ==
    IF Len(o.shape) < Len(base_shape(o)) THEN Ok(o)
    ELSE
    LET axis == IF axis0 = <<>> THEN 0..(Len(o.shape) - 1)
                ELSE Range(normalize_axes(axis0[1], o.shape))
        squeezed == Squeezed(o, axis)
        keptmeta == SelectSeq(Iota(Len(o.meta)), LAMBDA p : (p - 1) \notin squeezed)
    IN  Ok([o EXCEPT
            !.shape = NumpySqueezeShape(o.shape, squeezed),
            !.meta = [p \in 1..Len(keptmeta) |-> o.meta[keptmeta[p]]]])

-----------------------------------------------------------------------------
(* The state machine of the structural operations.                         *)

\* all sequences over S of length at most n
SeqUpTo(S, n) == UNION {[1..m -> S] : m \in 0..n}

BaseShape0 == <<1, 2>>

AxisLabels(n) == [i \in 1..n |-> i]

\* An ensemble axis at construction: its length and its metadata entry.
InitAxes == {[n |-> n, am |-> am] :
                n \in 1..MaxDim, am \in {UnknownAxis}} \cup
            {[n |-> n, am |-> OrdinalAxis(AxisLabels(n))] : n \in 1..MaxDim}

MakeObj(cls, axes, lazy) ==
    [cls |-> cls,
     shape |-> [p \in 1..Len(axes) |-> axes[p].n] \o BaseShape0,
     meta |-> [p \in 1..Len(axes) |-> axes[p].am],
     lazy |-> lazy,
     data |-> 0,
     fails |-> FALSE,
     kwargs |-> <<>>]

InitObjs == {MakeObj("Waves", axes, FALSE) : axes \in SeqUpTo(InitAxes, MaxEns)}

Slices == {SliceItem(<<>>, <<>>), SliceItem(<<1>>, <<>>), SliceItem(<<>>, <<-1>>)}

Items == {IntItem(i) : i \in -MaxIdx..MaxIdx} \cup Slices \cup {EllipsisItem}

NoCall == [op |-> "new", in |-> <<>>, items |-> <<>>, keep_dims |-> FALSE,
           axis |-> <<>>, axis_metadata |-> <<>>, raised |-> "none",
           sel |-> <<>>, ret |-> <<>>, compute |-> FALSE]

Call(op, o, r) == [NoCall EXCEPT !.op = op, !.in = <<o>>, !.raised = r.raised]

NoObj == MakeObj("Waves", <<>>, FALSE)

\* Attribute values.
NoneVal == [t |-> "none", v |-> <<>>]
Num(n) == [t |-> "num", v |-> <<n>>]
Str(x) == [t |-> "str", v |-> <<x>>]
Tuple(x) == [t |-> "tuple", v |-> x]
List(x) == [t |-> "list", v |-> x]
Dict(x) == [t |-> "dict", v |-> x]

\* No container at the url.
NoStore == [exists |-> FALSE, array |-> <<>>, attrs |-> <<>>]

\* A Waves object of abtem/waves/waves.py: its array and its description.
MakeWaves(shape, lazy, fails, energy, metadata, extra) ==
    [shape |-> shape, lazy |-> lazy, data |-> 0, fails |-> fails,
     energy |-> energy, extent |-> Tuple(<<10, 10>>), tilt |-> Tuple(<<0, 0>>),
     antialias_aperture |-> Num(1),
     extra_axes_metadata |-> extra, metadata |-> metadata]

NoWaves == MakeWaves(<<2, 2>>, FALSE, FALSE, Num(100), Dict(<<>>), List(<<>>))

\* The array variables, for the operations that do not use them.
arrayVars == <<obj, wrappers, waves, store>>

InitArrays == obj = NoObj /\ wrappers = <<>> /\ waves = NoWaves /\ store = NoStore

InitArr ==
    /\ obj \in InitObjs
    /\ wrappers = <<>>
    /\ waves = NoWaves
    /\ store = NoStore
    /\ InitOthers
    /\ last = NoCall

GetItems ==
    /\ last = NoCall
    /\ \E items \in SeqUpTo(Items, Len(ensemble_shape(obj)) + 1), keep_dims \in BOOLEAN :
        LET r == get_items(obj, items, keep_dims)
        IN  /\ obj' = r.obj
            /\ last' = [Call("get_items", obj, r) EXCEPT
                           !.items = items, !.keep_dims = keep_dims]
            /\ UNCHANGED <<wrappers, waves, store, others>>

ExpandAxes == {<<>>} \cup {<<a>> : a \in SeqUpTo(-1..MaxEns, 2) \ {<<>>}}

ExpandDims ==
    /\ last = NoCall
    /\ \E axis \in ExpandAxes, named \in BOOLEAN :
        LET n == IF axis = <<>> THEN 1 ELSE Len(axis[1])
            axis_metadata == IF named
                             THEN <<[p \in 1..n |-> OrdinalAxis(<<p>>)]>>
                             ELSE <<>>
            r == expand_dims(obj, axis, axis_metadata)
        IN  /\ Len(ensemble_shape(obj)) + n <= MaxEns
            /\ obj' = r.obj
            /\ last' = [Call("expand_dims", obj, r) EXCEPT
                           !.axis = axis, !.axis_metadata = axis_metadata]
            /\ UNCHANGED <<wrappers, waves, store, others>>

SqueezeAxes == {<<>>} \cup {<<a>> : a \in SeqUpTo(-1..MaxEns, 1)}

Squeeze ==
    /\ last = NoCall
    /\ \E axis \in SqueezeAxes :
        LET r == squeeze(obj, axis)
        IN  /\ obj' = r.obj
            /\ last' = [Call("squeeze", obj, r) EXCEPT !.axis = axis]
            /\ UNCHANGED <<wrappers, waves, store, others>>

\* The caller keeps the object it was handed and goes on to its next call:
\* the record of the finished call is dropped.
Proceed ==
    /\ last # NoCall
    /\ last' = NoCall
    /\ UNCHANGED <<obj, wrappers, waves, store, others>>

NextArr == GetItems \/ ExpandDims \/ Squeeze \/ Proceed

SpecArr == InitArr /\ [][NextArr]_vars

-----------------------------------------------------------------------------
(* Properties of the structural operations (checked under SpecArr).        *)

LastIn == last.in[1]

Structural == {"get_items", "expand_dims", "squeeze"}

C2_BaseAxesNotIndexed ==
    last.op = "get_items" =>
        LET e == Len(ensemble_shape(LastIn))
        IN  /\ Len(last.items) > e =>
                   last.raised = "RuntimeError" /\ obj = LastIn
            /\ (Len(last.items) <= e /\ last.raised = "none") =>
                   /\ base_shape(obj) = base_shape(LastIn)
                   /\ Len(obj.shape) >= base_dims(obj.cls)

\* C2 witness: a call with one item too many, the last of them a slice, on an
\* object with ensemble axes has been refused.
C2_Witness ==
    /\ last.op = "get_items"
    /\ Len(ensemble_shape(LastIn)) = 2
    /\ Len(last.items) = 3
    /\ last.items[3].k = "slice"
    /\ last.raised = "RuntimeError"

\* The ensemble axes of the receiver that an indexing call keeps (1-based).
KeptAxes(o, items) ==
    {p \in 1..Len(ensemble_shape(o)) : p > Len(items) \/ items[p].k = "slice"}

\* C3: after a successful get_items with keep_dims=False the metadata is that
\* of the axes not indexed by an integer, in their original order: an axis
\* beyond the items keeps its entry, a sliced axis keeps its entry, and a
\* sliced OrdinalAxis holds exactly the labels the slice selects from its
\* labels.
C3_IndexedMetadata ==
    (last.op = "get_items" /\ ~last.keep_dims /\ last.raised = "none") =>
        LET o == LastIn
            items == last.items
            K == KeptAxes(o, items)
            pos(p) == Cardinality({q \in K : q <= p})
        IN  /\ Len(obj.meta) = Cardinality(K)
            /\ \A p \in K :
                  LET old == o.meta[p]
                      new == obj.meta[pos(p)]
                  IN  /\ new.type = old.type
                      /\ p > Len(items) => new = old
                      /\ (p <= Len(items) /\ ~IsOrdinalAxis(old)) => new = old
                      /\ (p <= Len(items) /\ IsOrdinalAxis(old)) =>
                            /\ Len(new.values) = SliceLen(Len(old.values), items[p])
                            /\ \A j \in 1..Len(new.values) :
                                  new.values[j] =
                                      old.values[SliceLo(Len(old.values), items[p]) + j]

\* C3 witness: of two ensemble axes the first was indexed by an
\* integer and the second, an OrdinalAxis, by a slice that drops a label.
C3_Witness ==
    /\ last.op = "get_items" /\ ~last.keep_dims /\ last.raised = "none"
    /\ Len(last.items) = 2
    /\ last.items[1].k = "int" /\ last.items[2].k = "slice"
    /\ IsOrdinalAxis(LastIn.meta[2])
    /\ Len(obj.meta) = 1
    /\ obj.meta[1].values = <<2>>

\* The items are integers in range or slices, no more than ensemble axes.
ValidItems(o, items) ==
    /\ Len(items) <= Len(ensemble_shape(o))
    /\ \A p \in 1..Len(items) :
          \/ items[p].k = "slice"
          \/ items[p].k = "int" /\ IntInRange(o.shape[p], items[p].i)

\* C4: get_items with keep_dims=True and in-range integer indices (negative
\* ones included) succeeds, keeps the ensemble rank, and every axis indexed
\* by an integer is kept with length exactly 1 and with its metadata entry.
C4_KeepDimsLengthOne ==
    (last.op = "get_items" /\ last.keep_dims /\ ValidItems(LastIn, last.items)) =>
        /\ last.raised = "none"
        /\ Len(obj.meta) = Len(LastIn.meta)
        /\ Len(ensemble_shape(obj)) = Len(ensemble_shape(LastIn))
        /\ \A p \in 1..Len(last.items) :
              last.items[p].k = "int" =>
                  /\ obj.shape[p] = 1
                  /\ obj.meta[p].type = LastIn.meta[p].type

-----------------------------------------------------------------------------
(* Part 2: compute (abtem/core/array.py, lines 24-75 and 264-268).         *)
(*                                                                         *)
(* wrappers is the pool of live array objects; an object's identity is its *)
(* position in the pool.  A call names the objects it is given by a        *)
(* sequence sel of positions.                                              *)

\* largest number of objects in the pool
MaxList == 3
\* array contents are tokens 0 .. MaxVal
MaxVal == 1

is_lazy(o) == o.lazy

\* dask.compute on a list of arrays: one pass over all task graphs.  An eager
\* array passes through; if a task raises the call raises and returns nothing.
DaskCompute(arrays) ==
    IF \E k \in 1..Len(arrays) : arrays[k].lazy /\ arrays[k].fails
    THEN [raised |-> "TaskError", arrays |-> <<>>]
    ELSE [raised |-> "none",
          arrays |-> [k \in 1..Len(arrays) |->
                        [lazy |-> FALSE, data |-> arrays[k].data, fails |-> FALSE]]]

\* The backing array of an object.
ArrayOf(o) == [lazy |-> o.lazy, data |-> o.data, fails |-> o.fails]

\* wrapper._array = array
SetArray(o, a) == [o EXCEPT !.lazy = a.lazy, !.data = a.data, !.fails = a.fails]

AssignArraysNone(pool, sel, arrays, k) == pool

\* _compute, lines 67-68: for array, wrapper in zip(arrays, wrappers).
RECURSIVE AssignArrays(_, _, _, _)
AssignArrays(pool, sel, arrays, k) ==
    IF k > Min(Len(sel), Len(arrays)) THEN pool
    ELSE AssignArrays([pool EXCEPT ![sel[k]] = SetArray(pool[sel[k]], arrays[k])],
                      sel, arrays, k + 1)

\* Evaluates and assigns one object after the other.
RECURSIVE ComputeOneByOne(_, _, _)
ComputeOneByOne(pool, sel, k) ==
    IF k > Len(sel) THEN [raised |-> "none", pool |-> pool, ret |-> sel]
    ELSE LET r == DaskCompute(<<ArrayOf(pool[sel[k]])>>)
         IN  IF r.raised # "none"
             THEN [raised |-> r.raised, pool |-> pool, ret |-> <<>>]
             ELSE ComputeOneByOne(
                      [pool EXCEPT ![sel[k]] = SetArray(pool[sel[k]], r.arrays[1])],
                      sel, k + 1)

_computeOneByOne(pool, sel) == ComputeOneByOne(pool, sel, 1)

\* _compute(dask_array_wrappers): returns the list it was given.
_compute(pool, sel) ==
    LET r == DaskCompute([k \in 1..Len(sel) |-> ArrayOf(pool[sel[k]])])
    IN  IF r.raised # "none"
        THEN [raised |-> r.raised, pool |-> pool, ret |-> <<>>]
        ELSE [raised |-> "none",
              pool |-> AssignArrays(pool, sel, r.arrays, 1),
              ret |-> sel]

\* HasArray.compute on the object at position i.
HasArray_compute(pool, i) ==
    IF ~is_lazy(pool[i])
    THEN [raised |-> "none", pool |-> pool, ret |-> <<i>>]
    ELSE _compute(pool, <<i>>)

\* ComputableList.compute: every member here has an array attribute.
ComputableList_compute(pool, sel) ==
    LET r == DaskCompute([k \in 1..Len(sel) |-> ArrayOf(pool[sel[k]])])
    IN  IF r.raised # "none"
        THEN [raised |-> r.raised, pool |-> pool, ret |-> <<>>]
        ELSE [raised |-> "none",
              pool |-> AssignArrays(pool, sel, r.arrays, 1),
              ret |-> sel]

\* An object at construction: eager, or lazy with a graph that evaluates to
\* data or raises.
InitWrappers ==
    {[NoObj EXCEPT !.lazy = FALSE, !.data = d] : d \in 0..MaxVal} \cup
    {[NoObj EXCEPT !.lazy = TRUE, !.data = d, !.fails = f] :
        d \in 0..MaxVal, f \in BOOLEAN}

\* The lists of distinct objects of a pool of n objects.
Selections(n) ==
    {sel \in SeqUpTo(1..n, n) : Len(sel) >= 1 /\ Cardinality(Range(sel)) = Len(sel)}

InitCompute ==
    /\ obj = NoObj
    /\ wrappers \in SeqUpTo(InitWrappers, MaxList) \ {<<>>}
    /\ waves = NoWaves
    /\ store = NoStore
    /\ InitOthers
    /\ last = NoCall

ComputeCall(op, sel, r) ==
    [NoCall EXCEPT !.op = op, !.in = wrappers, !.sel = sel,
                   !.raised = r.raised, !.ret = r.ret]

Compute ==
    /\ last = NoCall
    /\ \E i \in 1..Len(wrappers) :
        LET r == HasArray_compute(wrappers, i)
        IN  /\ wrappers' = r.pool
            /\ last' = ComputeCall("HasArray.compute", <<i>>, r)
            /\ UNCHANGED <<obj, waves, store, others>>

ComputeWrappers ==
    /\ last = NoCall
    /\ \E sel \in Selections(Len(wrappers)) :
        LET r == _compute(wrappers, sel)
        IN  /\ wrappers' = r.pool
            /\ last' = ComputeCall("_compute", sel, r)
            /\ UNCHANGED <<obj, waves, store, others>>

ComputeComputableList ==
    /\ last = NoCall
    /\ \E sel \in Selections(Len(wrappers)) :
        LET r == ComputableList_compute(wrappers, sel)
        IN  /\ wrappers' = r.pool
            /\ last' = ComputeCall("ComputableList.compute", sel, r)
            /\ UNCHANGED <<obj, waves, store, others>>

NextCompute == Compute \/ ComputeWrappers \/ ComputeComputableList \/ Proceed

SpecCompute == InitCompute /\ [][NextCompute]_vars

-----------------------------------------------------------------------------
(* Properties of compute (checked under SpecCompute).                      *)

\* C5: compute on an eager object returns that object and leaves the pool as
\* it was; compute on a lazy object that does not raise returns that object,
\* now eager and holding the result of its graph; and after either, one more
\* compute on it changes nothing and returns the same object.
C5_ComputeIdempotent ==
    last.op = "HasArray.compute" =>
        LET i == last.sel[1]
            before == last.in[i]
            again == HasArray_compute(wrappers, i)
        IN  /\ ~is_lazy(before) =>
                  last.raised = "none" /\ last.ret = <<i>> /\ wrappers = last.in
            /\ last.raised = "none" =>
                  /\ last.ret = <<i>>
                  /\ ~is_lazy(wrappers[i])
                  /\ wrappers[i].data = before.data
                  /\ again.raised = "none"
                  /\ again.pool = wrappers
                  /\ again.ret = <<i>>

\* C5 witness: a lazy object was computed and is now eager.
C5_Witness ==
    /\ last.op = "HasArray.compute"
    /\ last.raised = "none"
    /\ is_lazy(last.in[last.sel[1]])
    /\ ~is_lazy(wrappers[last.sel[1]])

ListCompute == {"_compute", "ComputableList.compute"}

\* C6: computing a list of objects is all or nothing: if the graph of one of
\* them raises, the call raises and every object of the pool is as it was
\* (the lazy ones still lazy); otherwise every listed object is eager and
\* holds the result of its own graph, and the other objects are untouched.
C6_AllOrNothing ==
    last.op \in ListCompute =>
        LET sel == last.sel
            bad == \E k \in 1..Len(sel) : last.in[sel[k]].lazy /\ last.in[sel[k]].fails
        IN  /\ bad => last.raised # "none" /\ wrappers = last.in
            /\ ~bad =>
                  /\ last.raised = "none"
                  /\ last.ret = sel
                  /\ \A k \in 1..Len(sel) :
                        /\ ~is_lazy(wrappers[sel[k]])
                        /\ wrappers[sel[k]].data = last.in[sel[k]].data
                  /\ \A j \in 1..Len(wrappers) :
                        j \notin Range(sel) => wrappers[j] = last.in[j]

\* C6 witness (failure): a list whose first object evaluates and whose second
\* raises was computed, and the first object is still lazy.
C6_Witness ==
    /\ last.op \in ListCompute
    /\ Len(last.sel) >= 2
    /\ last.raised # "none"
    /\ last.in[last.sel[1]].lazy /\ ~last.in[last.sel[1]].fails
    /\ last.in[last.sel[2]].lazy /\ last.in[last.sel[2]].fails
    /\ is_lazy(wrappers[last.sel[1]])

-----------------------------------------------------------------------------
(* Part 3: stack and concatenate (abtem/core/array.py, lines 356-393).     *)
(*                                                                         *)
(* wrappers is the list has_arrays handed to the call, obj the object the  *)
(* call returns.                                                           *)

\* largest number of objects handed to stack / concatenate
MaxStack == 2
\* largest number of ensemble axes of an object handed to them or written
MaxEnsIn == 1

\* np.stack / da.stack: every array has the shape of the first, and the new
\* axis lies within the rank of the result.
NumpyStackRaises(shapes, axis) ==
    \/ \E k \in 1..Len(shapes) : shapes[k] # shapes[1]
    \/ axis > Len(shapes[1])
    \/ axis < -(Len(shapes[1]) + 1)

NumpyStackShape(shapes, axis) ==
    LET a == IF axis < 0 THEN axis + Len(shapes[1]) + 1 ELSE axis
    IN  SubSeq(shapes[1], 1, a) \o <<Len(shapes)>>
            \o SubSeq(shapes[1], a + 1, Len(shapes[1]))

\* np.concatenate / da.concatenate: the axis exists, and the arrays agree in
\* rank and in every length but the one along the axis.
NumpyConcatenateRaises(shapes, axis) ==
    LET n == Len(shapes[1])
        a == IF axis < 0 THEN axis + n ELSE axis
    IN  \/ a < 0 \/ a >= n
        \/ \E k \in 1..Len(shapes) :
              \/ Len(shapes[k]) # n
              \/ \E p \in 1..n : p # a + 1 /\ shapes[k][p] # shapes[1][p]

RECURSIVE SumAlong(_, _, _)
SumAlong(shapes, p, k) ==
    IF k > Len(shapes) THEN 0 ELSE shapes[k][p] + SumAlong(shapes, p, k + 1)

NumpyConcatenateShape(shapes, axis) ==
    LET n == Len(shapes[1])
        a == IF axis < 0 THEN axis + n ELSE axis
    IN  [shapes[1] EXCEPT ![a + 1] = SumAlong(shapes, a + 1, 1)]

\* The metadata entry of a base axis.
BaseAxis == [type |-> "RealSpaceAxis", values |-> <<>>]

\* HasAxes.axes_metadata: the ensemble entries followed by the base entries.
axes_metadata(o) == o.meta \o [p \in 1..base_dims(o.cls) |-> BaseAxis]

\* seq[axis] of a Python list, for an axis within the list.
PyIndex(s, axis) == IF axis < 0 THEN s[axis + Len(s) + 1] ELSE s[axis + 1]

\* AxisMetadata.concatenate: entries of one type join, an OrdinalAxis by
\* joining its labels.
AxisConcatenateRaises(a, b) == a.type # b.type

AxisConcatenate(a, b) ==
    IF IsOrdinalAxis(a) THEN [a EXCEPT !.values = a.values \o b.values] ELSE a

\* concatenate, lines 384-386: the loop over has_arrays[1:].
RECURSIVE ConcatenatedAxis(_, _, _, _)
ConcatenatedAxis(has_arrays, axis, acc, k) ==
    IF k > Len(has_arrays) THEN [raised |-> "none", am |-> acc]
    ELSE LET other == PyIndex(axes_metadata(has_arrays[k]), axis)
         IN  IF AxisConcatenateRaises(acc, other)
             THEN [raised |-> "RuntimeError", am |-> acc]
             ELSE ConcatenatedAxis(has_arrays, axis,
                                   AxisConcatenate(acc, other), k + 1)

\* stack, line 370: the metadata of the result.
StackedMetadata(meta, am, axis) == <<am>> \o meta

stack(has_arrays, am, axis) ==
    LET first == has_arrays[1]
        shapes == [k \in 1..Len(has_arrays) |-> has_arrays[k].shape]
    IN  IF ~(axis <= Len(ensemble_shape(first)))
        THEN Raise("AssertionError", first)
        ELSE IF NumpyStackRaises(shapes, axis)
        THEN Raise("ValueError", first)
        ELSE Ok([first EXCEPT
                 !.shape = NumpyStackShape(shapes, axis),
                 !.meta = StackedMetadata(first.meta, am, axis)])

concatenate(has_arrays, axis) ==
    LET first == has_arrays[1]
        shapes == [k \in 1..Len(has_arrays) |-> has_arrays[k].shape]
        n == Len(first.shape)
        a == IF axis < 0 THEN axis + n ELSE axis
        joined == ConcatenatedAxis(has_arrays, axis,
                                   PyIndex(axes_metadata(first), axis), 2)
        all == [axes_metadata(first) EXCEPT ![a + 1] = joined.am]
    IN  IF NumpyConcatenateRaises(shapes, axis)
        THEN Raise("ValueError", first)
        ELSE IF joined.raised # "none"
        THEN Raise(joined.raised, first)
        ELSE Ok([first EXCEPT
                 !.shape = NumpyConcatenateShape(shapes, axis),
                 !.meta = SubSeq(all, 1, Len(first.meta))])

StackBaseShapes == {<<1, 2>>, <<2, 2>>}

StackClasses == {"Waves", "Images"}

StackObjs ==
    {[MakeObj(cls, axes, FALSE) EXCEPT
         !.shape = [p \in 1..Len(axes) |-> axes[p].n] \o base] :
        cls \in StackClasses, axes \in SeqUpTo(InitAxes, MaxEnsIn),
        base \in StackBaseShapes}

InitStack ==
    /\ wrappers \in SeqUpTo(StackObjs, MaxStack) \ {<<>>}
    /\ obj = NoObj
    /\ waves = NoWaves
    /\ store = NoStore
    /\ InitOthers
    /\ last = NoCall

StackAxes == -1..(MaxEnsIn + 1)

Stack ==
    /\ last = NoCall
    /\ \E axis \in StackAxes, am \in {UnknownAxis, OrdinalAxis(Iota(Len(wrappers)))} :
        LET r == stack(wrappers, am, axis)
        IN  /\ obj' = r.obj
            /\ last' = [NoCall EXCEPT !.op = "stack", !.in = wrappers,
                           !.axis = <<axis>>, !.axis_metadata = <<am>>,
                           !.raised = r.raised]
            /\ UNCHANGED <<wrappers, waves, store, others>>

Concatenate ==
    /\ last = NoCall
    /\ \E axis \in StackAxes :
        LET r == concatenate(wrappers, axis)
        IN  /\ obj' = r.obj
            /\ last' = [NoCall EXCEPT !.op = "concatenate", !.in = wrappers,
                           !.axis = <<axis>>, !.raised = r.raised]
            /\ UNCHANGED <<wrappers, waves, store, others>>

NextStack == Stack \/ Concatenate \/ Proceed

SpecStack == InitStack /\ [][NextStack]_vars

-----------------------------------------------------------------------------
(* Properties of stack and concatenate (checked under SpecStack).          *)

\* C7: stack and concatenate called with objects of different classes, or
\* with objects of different base shapes, raise an error.
C7_SameClassAndBaseShape ==
    last.op \in {"stack", "concatenate"} =>
        ((\E k \in 1..Len(last.in) :
              \/ last.in[k].cls # last.in[1].cls
              \/ base_shape(last.in[k]) # base_shape(last.in[1]))
            => last.raised # "none")

\* C26: stack(has_arrays, axes_metadata, axis=k) with 0 <= k <= ensemble rank
\* creates the new array axis at position k and places the supplied
\* axes_metadata entry at the same position k of the ensemble axes metadata,
\* the entries of the first object keeping their order around it.
C26_StackAlignsMetadata ==
    (/\ last.op = "stack"
     /\ last.raised = "none"
     /\ last.axis[1] >= 0
     /\ last.axis[1] <= Len(ensemble_shape(last.in[1])))
        => LET k == last.axis[1]
               first == last.in[1]
           IN  /\ obj.shape[k + 1] = Len(last.in)
               /\ obj.meta = SubSeq(first.meta, 1, k) \o last.axis_metadata
                                  \o SubSeq(first.meta, k + 1, Len(first.meta))

\* The part of C26 that holds: a new axis at position 0.
StackAtFront ==
    (last.op = "stack" /\ last.axis[1] # 0) \/ C26_StackAlignsMetadata

-----------------------------------------------------------------------------
(* Part 4: to_zarr and from_zarr (abtem/core/array.py, lines 285-353, and  *)
(* abtem/waves/waves.py, lines 77-78 and 276-321).                         *)
(*                                                                         *)
(* store is the container at the one url used: whether the group exists,   *)
(* the array component (<<>> while absent) and the attributes, a function  *)
(* from keys to values.                                                    *)

\* zarr keeps attributes as JSON: a tuple comes back as a list.
JsonEncode(val) == IF val.t = "tuple" THEN List(val.v) ELSE val

\* axis_to_dict / axis_from_dict: a tagged dict of the entry's fields.
axis_to_dict(am) == Dict(<<am.type, am.values>>)
axis_from_dict(d) == [type |-> d.v[1], values |-> d.v[2]]

\* The group zarr.open(url, mode='w') creates: empty.
NewGroup == [exists |-> TRUE, array |-> <<>>, attrs |-> <<>>]

\* ensure_lazy: the object itself if lazy, else a new lazy object.
ensure_lazy(o) == IF is_lazy(o) THEN o ELSE [o EXCEPT !.lazy = TRUE]

\* copy_kwargs(exclude=('array',)).
copy_kwargs(o) ==
    ("ensemble_axes_metadata" :> o.meta) @@ o.kwargs

\* to_zarr, lines 305-311: the attributes written.
ToZarrAttrs(o) ==
    LET kw == copy_kwargs(o)
    IN  ("type" :> Str(o.cls)) @@
        [key \in DOMAIN kw |->
            IF key = "ensemble_axes_metadata"
            THEN List([p \in 1..Len(kw[key]) |-> axis_to_dict(kw[key][p])])
            ELSE JsonEncode(kw[key])]

\* HasArray.to_zarr: the receiver afterwards, and the container.
HasArray_to_zarr(o, compute) ==
    LET w == ensure_lazy(o)
    IN  IF compute /\ w.fails
        THEN [raised |-> "TaskError", self |-> o, store |-> NewGroup]
        ELSE [raised |-> "none", self |-> o,
              store |-> [exists |-> TRUE,
                         array |-> IF compute
                                   THEN <<[shape |-> w.shape, data |-> w.data]>>
                                   ELSE <<>>,
                         attrs |-> ToZarrAttrs(w)]]

FromZarrKwargsWithType(attrs) ==
    [key \in DOMAIN attrs \ {"ensemble_axes_metadata"} |-> attrs[key]]

\* from_zarr, lines 329-337: the keys handed to the constructor.
FromZarrKwargs(attrs) ==
    [key \in DOMAIN attrs \ {"ensemble_axes_metadata", "type"} |-> attrs[key]]

\* HasArray.from_zarr, called on the class cls.
HasArray_from_zarr(cls, st) ==
    IF ~st.exists THEN [raised |-> "PathNotFoundError", ret |-> <<>>]
    ELSE IF "ensemble_axes_metadata" \notin DOMAIN st.attrs
    THEN [raised |-> "UnboundLocalError", ret |-> <<>>]
    ELSE IF st.array = <<>>
    THEN [raised |-> "ArrayNotFoundError", ret |-> <<>>]
    ELSE LET dicts == st.attrs["ensemble_axes_metadata"].v
         IN  [raised |-> "none",
              ret |-> <<[cls |-> cls,
                         shape |-> st.array[1].shape,
                         meta |-> [p \in 1..Len(dicts) |-> axis_from_dict(dicts[p])],
                         lazy |-> TRUE,
                         data |-> st.array[1].data,
                         fails |-> FALSE,
                         kwargs |-> FromZarrKwargs(st.attrs)]>>]

\* from_zarr(url): the class is looked up from the stored type tag.
from_zarr(st) ==
    IF ~st.exists THEN [raised |-> "PathNotFoundError", ret |-> <<>>]
    ELSE IF "type" \notin DOMAIN st.attrs
    THEN [raised |-> "KeyError", ret |-> <<>>]
    ELSE HasArray_from_zarr(st.attrs["type"].v[1], st)

\* Waves.lazy (waves/waves.py): replaces the array of the receiver.
Waves_lazy(w) == [w EXCEPT !.lazy = TRUE]

WavesKeys == {"energy", "extent", "tilt", "antialias_aperture",
              "extra_axes_metadata", "metadata"}

\* Waves.to_zarr (waves/waves.py): the receiver afterwards, and the container.
Waves_to_zarr(w0) ==
    LET w == IF ~w0.lazy THEN Waves_lazy(w0) ELSE w0
    IN  IF w.fails
        THEN [raised |-> "TaskError", self |-> w, store |-> NewGroup]
        ELSE [raised |-> "none", self |-> w,
              store |-> [exists |-> TRUE,
                         array |-> <<[shape |-> w.shape, data |-> w.data]>>,
                         attrs |-> [key \in WavesKeys |-> JsonEncode(w[key])]]]

\* Waves.from_zarr (waves/waves.py): metadata is read and not handed on, so
\* the constructor's default, an empty dict, is used.
Waves_from_zarr(st) ==
    IF ~st.exists THEN [raised |-> "PathNotFoundError", ret |-> <<>>]
    ELSE IF ~(WavesKeys \subseteq DOMAIN st.attrs) \/ st.array = <<>>
    THEN [raised |-> "KeyError", ret |-> <<>>]
    ELSE [raised |-> "none",
          ret |-> <<[shape |-> st.array[1].shape,
                     lazy |-> TRUE,
                     data |-> st.array[1].data,
                     fails |-> FALSE,
                     energy |-> st.attrs["energy"],
                     extent |-> st.attrs["extent"],
                     tilt |-> st.attrs["tilt"],
                     antialias_aperture |-> st.attrs["antialias_aperture"],
                     extra_axes_metadata |-> st.attrs["extra_axes_metadata"],
                     metadata |-> Dict(<<>>)]>>]

\* The constructor attributes of the objects written: a scalar and a tuple.
ZarrKwargs ==
    {("energy" :> e) @@ ("sampling" :> sm) :
        e \in {NoneVal, Num(100)}, sm \in {NoneVal, Tuple(<<1, 1>>)}}

ZarrObjs ==
    {[MakeObj(cls, axes, l) EXCEPT !.data = d, !.fails = f, !.kwargs = kw] :
        cls \in StackClasses, axes \in SeqUpTo(InitAxes, MaxEnsIn),
        l \in BOOLEAN, f \in BOOLEAN, d \in 0..MaxVal, kw \in ZarrKwargs}

WavesObjs ==
    {MakeWaves(sh.shape, l, f, e, md, sh.extra) :
        sh \in {[shape |-> <<2, 2>>, extra |-> List(<<>>)],
                [shape |-> <<2, 2, 2>>,
                 extra |-> List(<<Dict(<<"type", "positions">>)>>)]},
        l \in BOOLEAN, f \in BOOLEAN, e \in {Num(100), Num(200)},
        md \in {Dict(<<>>), Dict(<<"label", "a">>)}}

InitZarr ==
    /\ \/ /\ obj \in {o \in ZarrObjs : o.fails => o.lazy}
          /\ waves = NoWaves
       \/ /\ obj = NoObj
          /\ waves \in {w \in WavesObjs : w.fails => w.lazy}
    /\ wrappers = <<>>
    /\ store = NoStore
    /\ InitOthers
    /\ last = NoCall

ToZarr ==
    /\ last = NoCall
    /\ \E compute \in BOOLEAN :
        LET r == HasArray_to_zarr(obj, compute)
        IN  /\ obj' = r.self
            /\ store' = r.store
            /\ last' = [NoCall EXCEPT !.op = "HasArray.to_zarr", !.in = <<obj>>,
                           !.compute = compute, !.raised = r.raised]
            /\ UNCHANGED <<wrappers, waves, others>>

FromZarr ==
    /\ last = NoCall
    /\ \E cls \in StackClasses :
        LET r == HasArray_from_zarr(cls, store)
        IN  /\ last' = [NoCall EXCEPT !.op = "HasArray.from_zarr", !.in = <<cls>>,
                           !.raised = r.raised, !.ret = r.ret]
            /\ UNCHANGED <<obj, wrappers, waves, store, others>>

FromZarrByType ==
    /\ last = NoCall
    /\ LET r == from_zarr(store)
       IN  /\ last' = [NoCall EXCEPT !.op = "from_zarr",
                          !.raised = r.raised, !.ret = r.ret]
           /\ UNCHANGED <<obj, wrappers, waves, store, others>>

WavesToZarr ==
    /\ last = NoCall
    /\ LET r == Waves_to_zarr(waves)
       IN  /\ waves' = r.self
           /\ store' = r.store
           /\ last' = [NoCall EXCEPT !.op = "Waves.to_zarr", !.in = <<waves>>,
                          !.raised = r.raised]
           /\ UNCHANGED <<obj, wrappers, others>>

WavesFromZarr ==
    /\ last = NoCall
    /\ LET r == Waves_from_zarr(store)
       IN  /\ last' = [NoCall EXCEPT !.op = "Waves.from_zarr",
                          !.raised = r.raised, !.ret = r.ret]
           /\ UNCHANGED <<obj, wrappers, waves, store, others>>

NextZarr ==
    ToZarr \/ FromZarr \/ FromZarrByType \/ WavesToZarr \/ WavesFromZarr \/ Proceed

SpecZarr == InitZarr /\ [][NextZarr]_vars

-----------------------------------------------------------------------------
(* Properties of to_zarr and from_zarr (checked under SpecZarr).           *)

Scalars == {"none", "num", "str"}

\* The container holds a complete write of HasArray.to_zarr.
WrittenByHasArray == "type" \in DOMAIN store.attrs /\ store.array # <<>>

\* The container holds a complete write of Waves.to_zarr.
WrittenByWaves == "metadata" \in DOMAIN store.attrs /\ store.array # <<>>

C9_WavesRoundTrip ==
    (last.op = "Waves.from_zarr" /\ WrittenByWaves) =>
        /\ last.raised = "none"
        /\ LET r == last.ret[1]
           IN  /\ r.energy = waves.energy
               /\ r.extent.v = waves.extent.v
               /\ r.tilt.v = waves.tilt.v
               /\ r.antialias_aperture = waves.antialias_aperture
               /\ r.extra_axes_metadata = waves.extra_axes_metadata
               /\ r.metadata = waves.metadata

\* C10: to_zarr leaves its receiver alone: an object that was eager before
\* the call is eager after it, with the array it had.
C10_ToZarrNoSideEffect ==
    /\ (last.op = "HasArray.to_zarr" /\ ~last.in[1].lazy) => obj = last.in[1]
    /\ (last.op = "Waves.to_zarr" /\ ~last.in[1].lazy) => waves = last.in[1]

-----------------------------------------------------------------------------
(* Part 5: sliced structures (abtem/slicing.py).                           *)
(*                                                                         *)
(* A length is a whole number of grid steps, Scale steps to the length     *)
(* unit; Scale is chosen so that a depth of whole units divided into up to *)
(* MaxSlices equal slices is exact.  A structure is a record [z, numbers,  *)
(* depth, orthogonal]: the z coordinate and the atomic number of each      *)
(* atom, and the cell.  sliced is the sliced structure constructed, <<>>   *)
(* before construction.                                                    *)

\* largest number of slices of a structure
MaxSlices == 3
\* largest depth of a structure, in length units
MaxDepth == 1
\* largest number of atoms of a structure
MaxAtoms == 2

RECURSIVE Gcd(_, _)
Gcd(a, b) == IF b = 0 THEN a ELSE Gcd(b, a % b)

RECURSIVE LcmUpTo(_)
LcmUpTo(n) ==
    IF n <= 1 THEN 1
    ELSE LET l == LcmUpTo(n - 1) IN (l * n) \div Gcd(l, n)

Scale == LcmUpTo(MaxSlices)

Abs(a) == IF a < 0 THEN -a ELSE a

\* np.ceil(a / b) for positive a and b.
CeilDiv(a, b) == (a + b - 1) \div b

\* np.sum of a tuple.
RECURSIVE SeqSum(_)
SeqSum(s) == IF s = <<>> THEN 0 ELSE s[1] + SeqSum(Tail(s))

\* np.isclose(a, b): |a - b| <= atol + rtol * |b| with atol = 1e-8 and
\* rtol = 1e-5, on lengths counted in grid steps.
IsClose(a, b) == Abs(a - b) * 100000 <= Abs(b) + (Scale \div 1000)

\* The slice_thickness argument: a scalar step, explicit values, or a string.
ScalarStep(s) == [k |-> "scalar", v |-> s]
StepValues(s) == [k |-> "tuple", v |-> s]
StepName == [k |-> "str", v |-> 0]

\* validate_slice_thickness, lines 14-21: a scalar step becomes a tuple.
ExpandScalar(s, thickness, num_slices) ==
    IF thickness # <<>>
    THEN LET n == CeilDiv(thickness[1], s)
         IN  [raised |-> "none", v |-> [i \in 1..n |-> thickness[1] \div n]]
    ELSE IF num_slices # <<>>
    THEN [raised |-> "none", v |-> [i \in 1..num_slices[1] |-> s]]
    ELSE [raised |-> "RuntimeError", v |-> <<>>]

SumCheckNever(values, thickness) == FALSE

\* validate_slice_thickness, lines 25-27.
SumCheckRaises(values, thickness) ==
    thickness # <<>> /\ ~IsClose(SeqSum(values), thickness[1])

\* validate_slice_thickness, lines 29-31.
LenCheckRaises(values, num_slices) ==
    num_slices # <<>> /\ Len(values) # num_slices[1]

validate_slice_thickness(slice_thickness, thickness, num_slices) ==
    LET e == IF slice_thickness.k = "scalar"
             THEN ExpandScalar(slice_thickness.v, thickness, num_slices)
             ELSE [raised |-> "none", v |-> slice_thickness.v]
    IN  IF e.raised # "none" THEN [raised |-> e.raised, ret |-> <<>>]
        ELSE IF SumCheckRaises(e.v, thickness)
        THEN [raised |-> "RuntimeError", ret |-> <<>>]
        ELSE IF LenCheckRaises(e.v, num_slices)
        THEN [raised |-> "RuntimeError", ret |-> <<>>]
        ELSE [raised |-> "none", ret |-> e.v]

\* AbstractSlicedAtoms.__init__: the slice thicknesses of the structure.
AbstractSlicedAtoms_init(atoms, slice_thickness) ==
    IF ~atoms.orthogonal THEN [raised |-> "RuntimeError", ret |-> <<>>]
    ELSE IF slice_thickness.k = "str"
    THEN [raised |-> "NotImplementedError", ret |-> <<>>]
    ELSE validate_slice_thickness(slice_thickness, <<atoms.depth>>, <<>>)

\* _slice_limits: the (start, end) pair of every slice.
_slice_limits(slice_thickness) ==
    [i \in 1..Len(slice_thickness) |->
        <<SeqSum(SubSeq(slice_thickness, 1, i - 1)),
          SeqSum(SubSeq(slice_thickness, 1, i))>>]

\* np.cumsum(slice_thickness).
CumSum(slice_thickness) ==
    [i \in 1..Len(slice_thickness) |-> SeqSum(SubSeq(slice_thickness, 1, i))]

\* np.digitize(zv, edges) for increasing edges: i with
\* edges[i-1] <= zv < edges[i], that is the number of edges not above zv.
Digitize(zv, edges) == Cardinality({i \in 1..Len(edges) : edges[i] <= zv})

\* label_to_index(labels, max_label): for every label 0..max_label the
\* indices of the entries carrying it.
label_to_index(labels, max_label) ==
    [l \in 1..(max_label + 1) |->
        SelectSeq(Iota(Len(labels)), LAMBDA a : labels[a] = l - 1)]

\* SliceIndexedAtoms.__init__, line 120: the label of every atom.
SliceIndexLabels(zs, slice_thickness) ==
    [a \in 1..Len(zs) |-> Digitize(zs[a], CumSum(slice_thickness))]

SliceIndexedAtoms_init(atoms, slice_thickness) ==
    LET r == AbstractSlicedAtoms_init(atoms, slice_thickness)
    IN  IF r.raised # "none" THEN [raised |-> r.raised, self |-> <<>>]
        ELSE [raised |-> "none",
              self |-> [kind |-> "SliceIndexedAtoms", atoms |-> atoms,
                        slice_thickness |-> r.ret, z_padding |-> 0,
                        slice_index |->
                            label_to_index(SliceIndexLabels(atoms.z, r.ret),
                                           Len(r.ret) - 1)]]

SlicedAtoms_init(atoms, slice_thickness, z_padding) ==
    LET r == AbstractSlicedAtoms_init(atoms, slice_thickness)
    IN  IF r.raised # "none" THEN [raised |-> r.raised, self |-> <<>>]
        ELSE [raised |-> "none",
              self |-> [kind |-> "SlicedAtoms", atoms |-> atoms,
                        slice_thickness |-> r.ret, z_padding |-> z_padding,
                        slice_index |-> <<>>]]

num_slices(s) == Len(s.slice_thickness)

\* The depths of the structures, in grid steps.
Depths == {d * Scale : d \in 1..MaxDepth}

\* The scalar steps that cut a depth into at most MaxSlices slices.
ScalarSteps(depth) == {s \in 1..(depth + 1) : CeilDiv(depth, s) <= MaxSlices}

ExplicitSteps == SeqUpTo({Scale \div 2, Scale}, MaxSlices) \ {<<>>}

SliceThicknessArgs(depth) ==
    {ScalarStep(s) : s \in ScalarSteps(depth)} \cup
    {StepValues(v) : v \in ExplicitSteps}

\* The z coordinates of atoms: every half unit from 0 to the depth.
ZGrid(depth) == {k * (Scale \div 2) : k \in 0..((2 * depth) \div Scale)}

AtomicNumbers == {6, 14}

MakeAtoms(zs, numbers, depth, orthogonal) ==
    [z |-> zs, numbers |-> numbers, depth |-> depth, orthogonal |-> orthogonal]

Structures ==
    UNION {{MakeAtoms(zs, numbers, depth, TRUE) :
                zs \in [1..m -> ZGrid(depth)], numbers \in [1..m -> AtomicNumbers]} :
            depth \in Depths, m \in 0..MaxAtoms}
    \cup {MakeAtoms(<<0>>, <<6>>, Scale, FALSE)}

InitSlice ==
    /\ InitArrays
    /\ sliced = <<>>
    /\ grid = <<>>
    /\ ms = <<>>
    /\ last = NoCall

ValidateSliceThickness ==
    /\ last = NoCall
    /\ \E depth \in Depths :
       \E st \in SliceThicknessArgs(depth), thickness \in {<<>>, <<depth>>},
          n \in {<<>>} \cup {<<k>> : k \in 1..MaxSlices} :
        LET r == validate_slice_thickness(st, thickness, n)
        IN  /\ last' = [op |-> "validate_slice_thickness", slice_thickness |-> st,
                        thickness |-> thickness, num_slices |-> n,
                        raised |-> r.raised, ret |-> r.ret]
            /\ UNCHANGED <<arrayVars, others>>

NewSliceIndexedAtoms ==
    /\ last = NoCall
    /\ sliced = <<>>
    /\ \E atoms \in Structures :
       \E st \in SliceThicknessArgs(atoms.depth) \cup {StepName} :
        LET r == SliceIndexedAtoms_init(atoms, st)
        IN  /\ sliced' = r.self
            /\ last' = [op |-> "SliceIndexedAtoms", slice_thickness |-> st,
                        atoms |-> atoms, raised |-> r.raised]
            /\ UNCHANGED <<arrayVars, grid, ms>>

NewSlicedAtoms ==
    /\ last = NoCall
    /\ sliced = <<>>
    /\ \E atoms \in Structures, z_padding \in {0, Scale \div 2} :
       \E st \in SliceThicknessArgs(atoms.depth) \cup {StepName} :
        LET r == SlicedAtoms_init(atoms, st, z_padding)
        IN  /\ sliced' = r.self
            /\ last' = [op |-> "SlicedAtoms", slice_thickness |-> st,
                        atoms |-> atoms, raised |-> r.raised]
            /\ UNCHANGED <<arrayVars, grid, ms>>

\* unpack_item: the (first, last) pair of an index or a range of slices.
unpack_item(item, num_items) ==
    IF item.k \notin {"int", "slice"}
    THEN [raised |-> "RuntimeError", first |-> 0, last |-> 0]
    ELSE LET first_index == IF item.k = "int" THEN item.i
                            ELSE IF item.start = <<>> THEN 0 ELSE item.start[1]
             stop == IF item.k = "int" THEN first_index + 1
                     ELSE IF item.stop = <<>> THEN num_items ELSE item.stop[1]
             last_index == Min(stop, num_items)
         IN  IF first_index >= last_index
             THEN [raised |-> "IndexError", first |-> first_index, last |-> last_index]
             ELSE [raised |-> "none", first |-> first_index, last |-> last_index]

check_slice_idxAbove(s, i) ==
    IF i > num_slices(s) THEN "RuntimeError" ELSE "none"

\* check_slice_idx.
check_slice_idx(s, i) ==
    IF i >= num_slices(s) THEN "RuntimeError" ELSE "none"

\* The atoms selected from a structure, as ase's atoms[indices] copies them:
\* ids are the positions of the selected atoms in the structure.
SelectAtoms(atoms, ids) ==
    [ids |-> ids,
     z |-> [k \in 1..Len(ids) |-> atoms.z[ids[k]]],
     numbers |-> [k \in 1..Len(ids) |-> atoms.numbers[ids[k]]],
     depth |-> atoms.depth]

\* atoms[atoms.numbers == atomic_number], when an atomic number is given.
FilterNumber(sel, atomic_number) ==
    IF atomic_number = <<>> THEN sel
    ELSE LET keep == SelectSeq(Iota(Len(sel.ids)),
                               LAMBDA k : sel.numbers[k] = atomic_number[1])
         IN  [sel EXCEPT !.ids = [k \in 1..Len(keep) |-> sel.ids[keep[k]]],
                         !.z = [k \in 1..Len(keep) |-> sel.z[keep[k]]],
                         !.numbers = [k \in 1..Len(keep) |-> sel.numbers[keep[k]]]]

\* np.concatenate of a list of index arrays.
RECURSIVE Flatten(_)
Flatten(ss) == IF ss = <<>> THEN <<>> ELSE ss[1] \o Flatten(Tail(ss))

ZShiftNone(s, first_slice) == 0

\* SliceIndexedAtoms.get_atoms_in_slices, line 143:
\* np.sum(self.slice_thickness[:first_slice]).
ZShift(s, first_slice) ==
    SeqSum(PySlice(s.slice_thickness, SliceItem(<<>>, <<first_slice>>)))

\* SliceIndexedAtoms.get_atoms_in_slices.
SliceIndexedAtoms_get_atoms_in_slices(s, first_slice, last_arg, atomic_number) ==
    LET last_slice == IF last_arg = <<>> THEN first_slice ELSE last_arg[1]
        n == Len(s.slice_index)
        bins == PySlice(s.slice_index, SliceItem(<<first_slice>>, <<last_slice>>))
        raised == IF last_slice - first_slice < 2
                  THEN IF IntInRange(n, first_slice) THEN "none" ELSE "IndexError"
                  ELSE IF bins = <<>> THEN "ValueError" ELSE "none"
    IN  IF raised # "none" THEN [raised |-> raised, self |-> s, ret |-> <<>>]
        ELSE LET in_slice == IF last_slice - first_slice < 2
                             THEN PyIndex(s.slice_index, first_slice)
                             ELSE Flatten(bins)
                 sel == FilterNumber(SelectAtoms(s.atoms, in_slice), atomic_number)
                 thick == PySlice(s.slice_thickness,
                                  SliceItem(<<first_slice>>, <<last_slice>>))
                 shift == ZShift(s, first_slice)
             IN  [raised |-> "none", self |-> s,
                  ret |-> <<[sel EXCEPT
                               !.depth = SeqSum(thick),
                               !.z = [k \in 1..Len(sel.z) |-> sel.z[k] - shift]]>>]

\* SlicedAtoms.get_atoms_in_slices.
SlicedAtoms_get_atoms_in_slices(s, first_slice, last_arg, atomic_number) ==
    LET last_slice == IF last_arg = <<>> THEN first_slice ELSE last_arg[1]
        limits == _slice_limits(s.slice_thickness)
        n == Len(limits)
    IN  IF ~IntInRange(n, first_slice) \/ ~IntInRange(n, last_slice)
        THEN [raised |-> "IndexError", self |-> s, ret |-> <<>>]
        ELSE LET a == PyIndex(limits, first_slice)[1]
                 b == PyIndex(limits, last_slice)[1]
                 in_slice == SelectSeq(Iota(Len(s.atoms.z)),
                                LAMBDA k : /\ s.atoms.z[k] >= a - s.z_padding
                                           /\ s.atoms.z[k] < b + s.z_padding)
                 sel == FilterNumber(SelectAtoms(s.atoms, in_slice), atomic_number)
             IN  [raised |-> "none", self |-> s,
                  ret |-> <<[sel EXCEPT !.depth = b - a]>>]

get_atoms_in_slices(s, first_slice, last_arg, atomic_number) ==
    IF s.kind = "SliceIndexedAtoms"
    THEN SliceIndexedAtoms_get_atoms_in_slices(s, first_slice, last_arg, atomic_number)
    ELSE SlicedAtoms_get_atoms_in_slices(s, first_slice, last_arg, atomic_number)

\* AbstractSlicedAtoms.__getitem__.
SlicedGetItem(s, item) ==
    LET u == unpack_item(item, num_slices(s))
    IN  IF u.raised # "none" THEN [raised |-> u.raised, self |-> s, ret |-> <<>>]
        ELSE get_atoms_in_slices(s, u.first, <<u.last>>, <<>>)

SliceArgs == -1..(MaxSlices + 1)

SlicedItems ==
    {IntItem(i) : i \in SliceArgs} \cup {EllipsisItem} \cup
    {SliceItem(a, b) : a \in {<<>>} \cup {<<i>> : i \in 0..MaxSlices},
                       b \in {<<>>} \cup {<<i>> : i \in 0..(MaxSlices + 1)}}

SliceCall(op, r) ==
    [op |-> op, before |-> sliced, first_slice |-> 0, last_slice |-> <<>>,
     atomic_number |-> <<>>, item |-> EllipsisItem, i |-> 0,
     raised |-> r.raised, ret |-> r.ret]

GetAtomsInSlices ==
    /\ last = NoCall
    /\ sliced # <<>>
    /\ \E first_slice \in SliceArgs,
          last_arg \in {<<>>} \cup {<<l>> : l \in SliceArgs},
          atomic_number \in {<<>>} \cup {<<z>> : z \in AtomicNumbers} :
        LET r == get_atoms_in_slices(sliced, first_slice, last_arg, atomic_number)
        IN  /\ sliced' = r.self
            /\ last' = [SliceCall("get_atoms_in_slices", r) EXCEPT
                           !.first_slice = first_slice, !.last_slice = last_arg,
                           !.atomic_number = atomic_number]
            /\ UNCHANGED <<arrayVars, grid, ms>>

SlicedGetItemCall ==
    /\ last = NoCall
    /\ sliced # <<>>
    /\ \E item \in SlicedItems :
        LET r == SlicedGetItem(sliced, item)
        IN  /\ sliced' = r.self
            /\ last' = [SliceCall("__getitem__", r) EXCEPT !.item = item]
            /\ UNCHANGED <<arrayVars, grid, ms>>

CheckSliceIdx ==
    /\ last = NoCall
    /\ sliced # <<>>
    /\ \E i \in SliceArgs :
        /\ last' = [SliceCall("check_slice_idx",
                              [raised |-> check_slice_idx(sliced, i), ret |-> <<>>])
                       EXCEPT !.i = i]
        /\ UNCHANGED <<arrayVars, others>>

NextSlice ==
    \/ ValidateSliceThickness \/ NewSliceIndexedAtoms \/ NewSlicedAtoms
    \/ GetAtomsInSlices \/ SlicedGetItemCall \/ CheckSliceIdx \/ Proceed

SpecSlice == InitSlice /\ [][NextSlice]_vars

-----------------------------------------------------------------------------
(* Properties of sliced structures (checked under SpecSlice).              *)

\* The number of slices a scalar step s cuts a depth into: the least n with
\* n * s >= depth.
IsLeastCover(n, s, depth) == n * s >= depth /\ (n - 1) * s < depth

\* C11: validate_slice_thickness returns thicknesses that sum to the given
\* total thickness; a scalar step s and a thickness T give the least number n
\* of equal slices of thickness T / n, none larger than s; explicit values
\* whose sum differs from T raise RuntimeError, as do a num_slices that
\* differs from the number of slices and a scalar step with neither a
\* thickness nor a num_slices; a constructed structure has thicknesses that
\* sum to its depth.
C11_ThicknessesSumToTotal ==
    /\ sliced # <<>> => SeqSum(sliced.slice_thickness) = sliced.atoms.depth
    /\ last.op = "validate_slice_thickness" =>
        LET st == last.slice_thickness
            T == last.thickness
            ns == last.num_slices
            ret == last.ret
        IN  /\ (last.raised = "none" /\ T # <<>>) => SeqSum(ret) = T[1]
            /\ (last.raised = "none" /\ T # <<>> /\ st.k = "scalar") =>
                  /\ IsLeastCover(Len(ret), st.v, T[1])
                  /\ \A i \in 1..Len(ret) :
                        ret[i] * Len(ret) = T[1] /\ ret[i] <= st.v
            /\ (st.k = "tuple" /\ T # <<>> /\ SeqSum(st.v) # T[1]) =>
                  last.raised = "RuntimeError"
            /\ (st.k = "tuple" /\ ns # <<>> /\ Len(st.v) # ns[1]) =>
                  last.raised = "RuntimeError"
            /\ (st.k = "scalar" /\ T # <<>> /\ ns # <<>>
                    /\ ~IsLeastCover(ns[1], st.v, T[1])) =>
                  last.raised = "RuntimeError"
            /\ (ns # <<>> /\ last.raised = "none") => Len(ret) = ns[1]
            /\ (st.k = "scalar" /\ T = <<>> /\ ns = <<>>) =>
                  last.raised = "RuntimeError"

\* C11 witness: a scalar step that does not divide the thickness gave more
\* than one slice, each thinner than the step.
C11_Witness ==
    /\ last.op = "validate_slice_thickness" /\ last.raised = "none"
    /\ last.slice_thickness.k = "scalar" /\ last.thickness # <<>>
    /\ Len(last.ret) > 1
    /\ last.ret[1] < last.slice_thickness.v

\* C12: in a SliceIndexedAtoms structure there is one bin per slice, the bins
\* are pairwise disjoint, every atom of the structure is in a bin, and an
\* atom with z in [start_i, end_i) of slice i is in bin i.
C12_EveryAtomInOneBin ==
    (sliced # <<>> /\ sliced.kind = "SliceIndexedAtoms") =>
        LET bins == sliced.slice_index
            limits == _slice_limits(sliced.slice_thickness)
            zs == sliced.atoms.z
        IN  /\ Len(bins) = num_slices(sliced)
            /\ \A i, j \in 1..Len(bins) :
                  i # j => Range(bins[i]) \cap Range(bins[j]) = {}
            /\ UNION {Range(bins[i]) : i \in 1..Len(bins)} = 1..Len(zs)
            /\ \A a \in 1..Len(zs), i \in 1..Len(bins) :
                  (limits[i][1] <= zs[a] /\ zs[a] < limits[i][2]) =>
                      a \in Range(bins[i])

\* C13: for a windowed SlicedAtoms structure and a slice index i with
\* 0 <= i < num_slices, sliced[i] returns exactly the atoms with z in
\* [start_i - z_padding, end_i + z_padding), in a cell whose depth is the
\* thickness of slice i.
C13_WindowedSlice ==
    (/\ last.op = "__getitem__"
     /\ last.before.kind = "SlicedAtoms"
     /\ last.item.k = "int"
     /\ 0 <= last.item.i /\ last.item.i < num_slices(last.before)) =>
        LET s == last.before
            i == last.item.i + 1
            limits == _slice_limits(s.slice_thickness)
        IN  /\ last.raised = "none"
            /\ Range(last.ret[1].ids) =
                  {a \in 1..Len(s.atoms.z) :
                      /\ s.atoms.z[a] >= limits[i][1] - s.z_padding
                      /\ s.atoms.z[a] < limits[i][2] + s.z_padding}
            /\ last.ret[1].depth = s.slice_thickness[i]

\* The call just made is SliceIndexedAtoms.get_atoms_in_slices(first, last)
\* with 0 <= first < last <= num_slices and no atomic number.
IndexedQuery ==
    /\ last.op = "get_atoms_in_slices"
    /\ last.before.kind = "SliceIndexedAtoms"
    /\ last.last_slice # <<>>
    /\ last.atomic_number = <<>>
    /\ 0 <= last.first_slice
    /\ last.first_slice < last.last_slice[1]
    /\ last.last_slice[1] <= num_slices(last.before)

\* C14: SliceIndexedAtoms.get_atoms_in_slices(first, last) with
\* 0 <= first < last <= num_slices returns exactly the atoms of the bins
\* first..last-1, each once, every z reduced by the cumulative thickness of
\* the slices before first, in a cell whose depth is the sum of the
\* thicknesses of the slices first..last-1, and leaves the structure as it
\* was.
C14_IndexedQuery ==
    IndexedQuery =>
        LET s == last.before
            first == last.first_slice
            stop == last.last_slice[1]
        IN  /\ last.raised = "none"
            /\ sliced = s
            /\ LET ret == last.ret[1]
               IN  /\ Range(ret.ids) =
                         UNION {Range(s.slice_index[i]) : i \in (first + 1)..stop}
                   /\ Cardinality(Range(ret.ids)) = Len(ret.ids)
                   /\ \A k \in 1..Len(ret.ids) :
                         /\ ret.z[k] = s.atoms.z[ret.ids[k]]
                                         - SeqSum(SubSeq(s.slice_thickness, 1, first))
                         /\ ret.numbers[k] = s.atoms.numbers[ret.ids[k]]
                   /\ ret.depth = SeqSum(SubSeq(s.slice_thickness, first + 1, stop))

\* C14 witness: a query for the second and third slice of a three-slice
\* structure returned an atom, its z shifted by the first slice's thickness.
C14_Witness ==
    /\ IndexedQuery
    /\ last.first_slice = 1 /\ last.last_slice = <<3>>
    /\ last.raised = "none"
    /\ Len(last.ret[1].ids) >= 1
    /\ last.ret[1].z[1] < last.before.atoms.z[last.ret[1].ids[1]]

-----------------------------------------------------------------------------
(* Part 6: projections of point sources onto a periodic grid               *)
(* (abtem/core/integrals/infinite.py).                                     *)
(*                                                                         *)
(* A position is a pair of whole numbers of sub-pixel steps, SubPixel      *)
(* steps to the pixel; a deposited weight is a whole number of             *)
(* 1 / SubPixel^2, so that the bilinear weights are exact.  A 2-D array is *)
(* a sequence of rows.  grid is the array superpose_deltas was handed,     *)
(* after the call (the function adds in place and returns its argument).   *)

\* largest length of a grid axis
MaxGrid == 2
\* largest number of points deposited in one call
MaxPoints == 2
\* sub-pixel steps to the pixel
SubPixel == 2

\* xp.floor(p) for a position of p sub-pixel steps.
Floor(p) == p \div SubPixel

Zeros2D(shape) == [r \in 1..shape[1] |-> [c \in 1..shape[2] |-> 0]]

ArraySum(array) ==
    SeqSum([r \in 1..Len(array) |-> SeqSum(array[r])])

CellsClipped(pos, shape) ==
    LET row == Floor(pos[1])
        col == Floor(pos[2])
        x == pos[1] - row * SubPixel
        y == pos[2] - col * SubPixel
        r1 == Min((row % shape[1]) + 1, shape[1] - 1)
        c1 == Min((col % shape[2]) + 1, shape[2] - 1)
    IN  <<[r |-> row % shape[1], c |-> col % shape[2],
           v |-> SubPixel * SubPixel + x * y - SubPixel * y - SubPixel * x],
          [r |-> r1, c |-> col % shape[2], v |-> SubPixel * x - x * y],
          [r |-> row % shape[1], c |-> c1, v |-> SubPixel * y - x * y],
          [r |-> r1, c |-> c1, v |-> x * y]>>

\* superpose_deltas, lines 30-40: the four cells a point is deposited into
\* and the weight each receives, in the order of i, j and v.
Cells(pos, shape) ==
    LET row == Floor(pos[1])
        col == Floor(pos[2])
        x == pos[1] - row * SubPixel
        y == pos[2] - col * SubPixel
    IN  <<[r |-> row % shape[1], c |-> col % shape[2],
           v |-> SubPixel * SubPixel + x * y - SubPixel * y - SubPixel * x],
          [r |-> (row + 1) % shape[1], c |-> col % shape[2],
           v |-> SubPixel * x - x * y],
          [r |-> row % shape[1], c |-> (col + 1) % shape[2],
           v |-> SubPixel * y - x * y],
          [r |-> (row + 1) % shape[1], c |-> (col + 1) % shape[2],
           v |-> x * y]>>

\* The weight of point k: 1 without weights.
WeightOf(weights, k) == IF weights = <<>> THEN 1 ELSE weights[1][k]

\* The (row, col, value) triples of all points, the values weighted.
RECURSIVE Triples(_, _, _, _)
Triples(positions, weights, shape, k) ==
    IF k > Len(positions) THEN <<>>
    ELSE LET cells == Cells(positions[k], shape)
         IN  [n \in 1..Len(cells) |->
                 [cells[n] EXCEPT !.v = @ * WeightOf(weights, k)]]
             \o Triples(positions, weights, shape, k + 1)

\* The sum of the values of the triples that address cell (r, c).
RECURSIVE SumAt(_, _, _, _)
SumAt(triples, r, c, k) ==
    IF k > Len(triples) THEN 0
    ELSE (IF triples[k].r = r /\ triples[k].c = c THEN triples[k].v ELSE 0)
         + SumAt(triples, r, c, k + 1)

\* xp.add.at(array, (i, j), v): every triple is added to the cell it
\* addresses (0-based), repeated cells too.
AddAt(array, triples) ==
    [p \in 1..Len(array) |->
        [q \in 1..Len(array[p]) |->
            array[p][q] + SumAt(triples, p - 1, q - 1, 1)]]

\* superpose_deltas: the array after the call, which is also what it returns.
superpose_deltas(positions, array, slice_index, weights) ==
    IF slice_index # <<>>
    THEN [raised |-> "NotImplementedError", array |-> array]
    ELSE [raised |-> "none",
          array |-> AddAt(array, Triples(positions, weights,
                                         <<Len(array), Len(array[1])>>, 1))]

\* np.unique(atoms.numbers): the distinct numbers in increasing order.
RECURSIVE SortSet(_)
SortSet(S) ==
    IF S = {} THEN <<>>
    ELSE LET m == CHOOSE x \in S : \A y \in S : x <= y
         IN  <<m>> \o SortSet(S \ {m})

Unique(numbers) == SortSet(Range(numbers))

\* values[atoms.numbers == number].
Masked(values, numbers, number) ==
    LET keep == SelectSeq(Iota(Len(values)), LAMBDA k : numbers[k] = number)
    IN  [k \in 1..Len(keep) |-> values[keep[k]]]

\* infinite_potential_projections, lines 68-94: the density map of every
\* species, which the code then convolves with the species' scattering
\* factor; with one species the loop has one round.
RECURSIVE SpeciesMaps(_, _, _, _, _, _)
SpeciesMaps(positions, numbers, unique, shape, slice_index, k) ==
    IF k > Len(unique) THEN [raised |-> "none", maps |-> <<>>]
    ELSE LET masked_slice_index ==
                 IF slice_index = <<>> THEN <<>>
                 ELSE <<Masked(slice_index[1], numbers, unique[k])>>
             r == superpose_deltas(Masked(positions, numbers, unique[k]),
                                   Zeros2D(shape), masked_slice_index, <<>>)
         IN  IF r.raised # "none" THEN [raised |-> r.raised, maps |-> <<>>]
             ELSE LET rest == SpeciesMaps(positions, numbers, unique, shape,
                                          slice_index, k + 1)
                  IN  IF rest.raised # "none" THEN rest
                      ELSE [raised |-> "none",
                            maps |-> <<[number |-> unique[k], map |-> r.array]>>
                                        \o rest.maps]

\* infinite_potential_projections, for positions given in pixels: the shape
\* of the result and, as its contents, the density maps it is computed from
\* (none: the array is all zero).
infinite_potential_projections(positions, numbers, shape, slice_index) ==
    IF Len(positions) = 0
    THEN [raised |-> "none", ret |-> <<[shape |-> shape, maps |-> <<>>]>>]
    ELSE LET work == IF slice_index = <<>> THEN Tail(shape) ELSE shape
             r == SpeciesMaps(positions, numbers, Unique(numbers), work,
                              slice_index, 1)
         IN  IF r.raised # "none" THEN [raised |-> r.raised, ret |-> <<>>]
             ELSE [raised |-> "none",
                   ret |-> <<[shape |-> IF Len(work) = 2 THEN <<1>> \o work
                                        ELSE work,
                              maps |-> r.maps]>>]

\* ProjectedScatteringFactors.integrate_on_grid, for an integrator built for
\* the grid gpts and positions given in pixels.
integrate_on_grid(positions, gpts, fourier_space) ==
    IF Len(positions) = 0
    THEN [raised |-> "none", ret |-> <<[shape |-> gpts, maps |-> <<>>]>>]
    ELSE LET r == superpose_deltas(positions, Zeros2D(gpts), <<>>, <<>>)
         IN  [raised |-> r.raised,
              ret |-> <<[shape |-> gpts,
                         maps |-> <<[number |-> 0, map |-> r.array]>>]>>]

GridShapes == {<<a, b>> : a, b \in 1..MaxGrid}

\* Positions from one pixel before the grid to one pixel beyond it.
AnyPositions(shape) ==
    {<<r, c>> : r \in (-SubPixel)..((shape[1] + 1) * SubPixel - 1),
                c \in (-SubPixel)..((shape[2] + 1) * SubPixel - 1)}

\* Positions within the grid.
GridPositions(shape) ==
    {<<r, c>> : r \in 0..(shape[1] * SubPixel - 1),
                c \in 0..(shape[2] * SubPixel - 1)}

InitProj ==
    /\ InitArrays
    /\ sliced = <<>>
    /\ grid = <<>>
    /\ ms = <<>>
    /\ last = NoCall

SuperposeDeltas ==
    /\ last = NoCall
    /\ \E shape \in GridShapes, m \in 1..MaxPoints, fill \in 0..1 :
       \E positions \in [1..m -> AnyPositions(shape)],
          weights \in {<<>>, <<[k \in 1..m |-> k]>>},
          slice_index \in {<<>>, <<[k \in 1..m |-> 0]>>} :
        LET array == [r \in 1..shape[1] |-> [c \in 1..shape[2] |-> fill]]
            r == superpose_deltas(positions, array, slice_index, weights)
        IN  /\ grid' = r.array
            /\ last' = [op |-> "superpose_deltas", positions |-> positions,
                        array |-> array, slice_index |-> slice_index,
                        weights |-> weights, raised |-> r.raised,
                        ret |-> IF r.raised = "none" THEN <<r.array>> ELSE <<>>]
            /\ UNCHANGED <<arrayVars, sliced, ms>>

ProjectionArgs(m) ==
    [shape : {<<n>> \o g : n \in 1..2, g \in GridShapes},
     numbers : [1..m -> AtomicNumbers],
     slice_index : {<<>>, <<[k \in 1..m |-> 0]>>}]

InfinitePotentialProjections ==
    /\ last = NoCall
    /\ \E m \in 0..MaxPoints :
       \E args \in ProjectionArgs(m) :
       \E positions \in [1..m -> GridPositions(Tail(args.shape))] :
        LET r == infinite_potential_projections(positions, args.numbers,
                                                args.shape, args.slice_index)
        IN  /\ last' = [op |-> "infinite_potential_projections",
                        positions |-> positions, numbers |-> args.numbers,
                        shape |-> args.shape, slice_index |-> args.slice_index,
                        raised |-> r.raised, ret |-> r.ret]
            /\ UNCHANGED <<arrayVars, others>>

IntegrateOnGrid ==
    /\ last = NoCall
    /\ \E gpts \in GridShapes, m \in 0..MaxPoints, fourier_space \in BOOLEAN :
       \E positions \in [1..m -> GridPositions(gpts)] :
        LET r == integrate_on_grid(positions, gpts, fourier_space)
        IN  /\ last' = [op |-> "integrate_on_grid", positions |-> positions,
                        shape |-> gpts, fourier_space |-> fourier_space,
                        raised |-> r.raised, ret |-> r.ret]
            /\ UNCHANGED <<arrayVars, others>>

\* The caller is done with the result and the array it handed over.
ProceedProj ==
    /\ last # NoCall
    /\ last' = NoCall
    /\ grid' = <<>>
    /\ UNCHANGED <<arrayVars, sliced, ms>>

NextProj ==
    SuperposeDeltas \/ InfinitePotentialProjections \/ IntegrateOnGrid \/ ProceedProj

SpecProj == InitProj /\ [][NextProj]_vars

-----------------------------------------------------------------------------
(* Properties of the projections (checked under SpecProj).                 *)

\* The bilinear weight of the neighbour at offset d (0 or 1) along an axis,
\* for a fractional part of f sub-pixel steps.
Bilinear(f, d) == IF d = 0 THEN SubPixel - f ELSE f

\* What point k deposits into cell (a, b) (0-based) of a grid of the shape.
DepositAt(pos, w, shape, a, b) ==
    LET row == Floor(pos[1])
        col == Floor(pos[2])
        x == pos[1] - row * SubPixel
        y == pos[2] - col * SubPixel
        hits == {d \in {0, 1} \X {0, 1} :
                    /\ (row + d[1]) % shape[1] = a
                    /\ (col + d[2]) % shape[2] = b}
        part(d) == IF d \in hits THEN Bilinear(x, d[1]) * Bilinear(y, d[2]) * w
                   ELSE 0
    IN  part(<<0, 0>>) + part(<<0, 1>>) + part(<<1, 0>>) + part(<<1, 1>>)

\* The rows of an array that hold a non-zero entry (0-based).
NonZeroRows(array) ==
    {r - 1 : r \in {q \in 1..Len(array) : \E c \in 1..Len(array[q]) : array[q][c] # 0}}

NonZeroCells(array) ==
    {<<r, c>> \in (1..Len(array)) \X (1..Len(array[1])) : array[r][c] # 0}

\* C16: superpose_deltas adds to every cell of the periodic grid the bilinear
\* weights (1-x)(1-y), x(1-y), (1-x)y, xy of the points whose neighbours
\* (r, c), (r+1, c), (r, c+1), (r+1, c+1), taken modulo the shape, fall on
\* it; the array keeps its shape and its total grows by the number of points,
\* or by the sum of the weights given; a point in the last row, off the
\* pixel, deposits into the last row and into row 0, and a point with
\* x = y = 0 on an empty grid leaves one non-zero cell.
C16_MassConserved ==
    (last.op = "superpose_deltas" /\ last.raised = "none") =>
        LET before == last.array
            shape == <<Len(before), Len(before[1])>>
            pts == last.positions
            w(k) == WeightOf(last.weights, k)
        IN  /\ grid = last.ret[1]
            /\ Len(grid) = shape[1]
            /\ \A r \in 1..shape[1] : Len(grid[r]) = shape[2]
            /\ \A r \in 1..shape[1], c \in 1..shape[2] :
                  grid[r][c] - before[r][c] =
                      SeqSum([k \in 1..Len(pts) |->
                                 DepositAt(pts[k], w(k), shape, r - 1, c - 1)])
            /\ ArraySum(grid) - ArraySum(before) =
                  SubPixel * SubPixel * SeqSum([k \in 1..Len(pts) |-> w(k)])
            /\ (Len(pts) = 1 /\ ArraySum(before) = 0) =>
                  /\ (Floor(pts[1][1]) = shape[1] - 1
                        /\ pts[1][1] % SubPixel # 0) =>
                          NonZeroRows(grid) = {shape[1] - 1, 0}
                  /\ (pts[1][1] % SubPixel = 0 /\ pts[1][2] % SubPixel = 0) =>
                          Cardinality(NonZeroCells(grid)) = 1

\* C16 witness: one point half a pixel below the last row of an empty grid
\* of two rows was deposited, and both rows received weight.
C16_Witness ==
    /\ last.op = "superpose_deltas" /\ last.raised = "none"
    /\ Len(last.positions) = 1
    /\ Len(last.array) = 2
    /\ ArraySum(last.array) = 0
    /\ Floor(last.positions[1][1]) = 1
    /\ last.positions[1][1] % SubPixel # 0
    /\ NonZeroRows(grid) = {0, 1}

\* C17: infinite_potential_projections returns an array with a leading slice
\* axis (three axes) when a slice_index is given, and an array collapsed to
\* two axes otherwise.
C17_LeadingSliceAxis ==
    last.op = "infinite_potential_projections" =>
        /\ last.raised = "none"
        /\ last.slice_index # <<>> => Len(last.ret[1].shape) = 3
        /\ last.slice_index = <<>> => Len(last.ret[1].shape) = 2

\* C18: for an empty selection infinite_potential_projections and
\* integrate_on_grid return an all-zero array without raising, of the shape
\* the same call returns for a non-empty selection.
C18_EmptySelection ==
    /\ (last.op = "infinite_potential_projections" /\ Len(last.positions) = 0) =>
        /\ last.raised = "none"
        /\ last.ret[1].maps = <<>>
        /\ \A pos \in GridPositions(Tail(last.shape)), z \in AtomicNumbers :
              LET r == infinite_potential_projections(
                           <<pos>>, <<z>>, last.shape,
                           IF last.slice_index = <<>> THEN <<>> ELSE <<<<0>>>>)
              IN  r.raised = "none" /\ r.ret[1].shape = last.ret[1].shape
    /\ (last.op = "integrate_on_grid" /\ Len(last.positions) = 0) =>
        /\ last.raised = "none"
        /\ last.ret[1].maps = <<>>
        /\ \A pos \in GridPositions(last.shape) :
              LET r == integrate_on_grid(<<pos>>, last.shape, last.fourier_space)
              IN  r.raised = "none" /\ r.ret[1].shape = last.ret[1].shape

-----------------------------------------------------------------------------
(* Part 7: transition_potential_multislice (abtem/ionization/multislice.py,*)
(* lines 37-88), one step per round of its loops.                          *)
(*                                                                         *)
(* ms is the state of one call, <<>> before the call: pc is the position   *)
(* in the function, i the slice of the outer loop, batch the number of     *)
(* scattered-wave batches generated for slice i so far.  The primary wave  *)
(* is the sequence of the operations applied to it, a scattered wave       *)
(* remembers the primary wave it was generated from, and a measurement is  *)
(* the sequence of the contributions added to it.                          *)

\* largest number of detectors of a call
MaxDetectors == 2
\* largest number of scattered-wave batches of a slice
MaxBatches == 2

DetectorNames == {"annular", "pixelated", "segmented"}

\* The lists of distinct detectors handed to a call.
DetectorLists ==
    {d \in SeqUpTo(DetectorNames, MaxDetectors) :
        Cardinality(Range(d)) = Len(d)}

\* The slice thicknesses of the potential.
SliceThicknesses ==
    UNION {[1..n -> {1, 2}] : n \in 1..MaxSlices}

\* multislice(scattered_waves, transmission_function, start=i, propagator):
\* every slice from start on is transmitted and propagated, with the
\* propagator's thickness set to the thickness of the slice.
multislice(wave, thickness, start, propagator) ==
    [wave |-> wave \o
                [k \in 1..(2 * (Len(thickness) - start)) |->
                    IF k % 2 = 1
                    THEN [op |-> "transmit", slice |-> start + (k - 1) \div 2,
                          thickness |-> 0]
                    ELSE [op |-> "propagate", slice |-> start + (k - 2) \div 2,
                          thickness |-> thickness[start + k \div 2]]],
     propagator |-> IF start < Len(thickness)
                    THEN thickness[Len(thickness)] ELSE propagator]

\* Line 62: one empty measurement per detector.
allocate_measurements(detectors) == [j \in 1..Len(detectors) |-> <<>>]

AddToFirst(measurements, j, measurement) ==
    [k \in 1..Len(measurements) |->
        IF k = 1 THEN Append(measurements[k], measurement) ELSE measurements[k]]

\* Line 82: measurements[j].add(measurement), j 1-based here.
AddMeasurement(measurements, j, measurement) ==
    [k \in 1..Len(measurements) |->
        IF k = j THEN Append(measurements[k], measurement) ELSE measurements[k]]

\* Lines 76-82: the loop over the detectors for one batch of scattered waves.
RECURSIVE DetectLoop(_, _, _, _)
DetectLoop(measurements, detectors, scattered, j) ==
    IF j > Len(detectors) THEN measurements
    ELSE DetectLoop(
             AddMeasurement(measurements, j,
                 [detector |-> detectors[j], slice |-> scattered.slice,
                  batch |-> scattered.batch, wave |-> scattered.wave,
                  via |-> IF scattered.has_reduce THEN "reduce" ELSE "detect",
                  summed |-> TRUE]),
             detectors, scattered, j + 1)

PropagatorKept(m) == m.propagator

\* Line 84: propagator.thickness = transmission_function_slice.thickness.
PropagatorThickness(m) == m.thickness[m.i + 1]

\* Lines 84-86: the primary wave is transmitted through slice i and
\* propagated with the propagator as it is set.
AdvancePrimary(m) ==
    LET p == PropagatorThickness(m)
    IN  [m EXCEPT
           !.propagator = p,
           !.waves = m.waves \o
                       <<[op |-> "transmit", slice |-> m.i, thickness |-> 0],
                         [op |-> "propagate", slice |-> m.i, thickness |-> p]>>,
           !.i = m.i + 1,
           !.batch = 0]

\* Accelerator.match(other, check_match=True) as apply_ctf calls it
\* (abtem/waves/waves.py, lines 214-217): a CTF without an energy takes the
\* energy of the waves, any other CTF must have the energy of the waves.
apply_ctf_raises(ctf) == ctf = "other_energy"

\* Lines 66-82: one round of the loop over the scattered waves.
ScatterRound(m) ==
    LET r == multislice(<<>>, m.thickness, m.i, m.propagator)
        scattered == [slice |-> m.i, batch |-> m.batch, from |-> m.waves,
                      start |-> m.i,
                      wave |-> IF m.ctf # "none"
                               THEN Append(r.wave, [op |-> "apply_ctf",
                                                    slice |-> m.i,
                                                    thickness |-> 0])
                               ELSE r.wave,
                      has_reduce |-> m.has_reduce]
    IN  IF m.ctf # "none" /\ apply_ctf_raises(m.ctf)
        THEN [m EXCEPT
                !.pc = "raised", !.raised = "RuntimeError",
                !.propagator = r.propagator,
                !.multisliced = Append(m.multisliced, r.wave)]
        ELSE [m EXCEPT
                !.propagator = r.propagator,
                !.multisliced = Append(m.multisliced, r.wave),
                !.scattered = Append(m.scattered, scattered),
                !.measurements = DetectLoop(m.measurements, m.detectors,
                                            scattered, 1),
                !.batch = m.batch + 1]

\* validate_sites, lines 18-34: TRUE when it raises for a potential of
\* n_potential slices.
validate_sites_raises(n_potential, sites) ==
    LET inferred == IF sites.kind = "None" THEN [kind |-> "Atoms", len |-> 0]
                    ELSE sites
    IN  \/ sites.kind = "None" /\ ~sites.potential_has_atoms
        \/ inferred.kind = "SliceIndexedAtoms" /\ inferred.len # n_potential
        \/ inferred.kind \notin {"SliceIndexedAtoms", "Atoms"}

\* Lines 44-62: the checks and the allocation of the measurements.
BeginCall(has_reduce, scan, thickness, detectors, ctf, sites) ==
    LET m == [pc |-> "slices", raised |-> "none",
              has_reduce |-> has_reduce, ctf |-> ctf,
              thickness |-> thickness, detectors |-> detectors,
              i |-> 0, batch |-> 0, propagator |-> 0,
              waves |-> <<>>, scattered |-> <<>>, multisliced |-> <<>>,
              measurements |-> <<>>,
              ret |-> <<>>]
    IN  IF has_reduce # scan \/ validate_sites_raises(Len(thickness), sites)
        THEN [m EXCEPT !.pc = "raised", !.raised = "RuntimeError"]
        ELSE [m EXCEPT !.measurements = allocate_measurements(detectors)]

\* The transition sites handed to a call of n_potential slices.
SitesArgs(n_potential) ==
    {[kind |-> "None", len |-> 0, potential_has_atoms |-> b] : b \in BOOLEAN}
    \cup {[kind |-> "SliceIndexedAtoms", len |-> k, potential_has_atoms |-> TRUE] :
              k \in {n_potential, n_potential + 1}}
    \cup {[kind |-> k, len |-> 0, potential_has_atoms |-> TRUE] :
              k \in {"Atoms", "ndarray"}}

\* The CTF handed to a call: none, one without an energy, one of the energy
\* of the waves, one of another energy.
CtfArgs == {"none", "no_energy", "same_energy", "other_energy"}

InitMs ==
    /\ InitArrays
    /\ sliced = <<>>
    /\ grid = <<>>
    /\ ms = <<>>
    /\ last = NoCall

MsBegin ==
    /\ ms = <<>>
    /\ \E has_reduce \in BOOLEAN, scan \in BOOLEAN, ctf \in CtfArgs,
          thickness \in SliceThicknesses, detectors \in DetectorLists :
        \E sites \in SitesArgs(Len(thickness)) :
            ms' = BeginCall(has_reduce, scan, thickness, detectors, ctf, sites)
    /\ UNCHANGED <<arrayVars, sliced, grid, last>>

\* generate_scattered_waves yields another batch for slice i.
MsScatter ==
    /\ ms # <<>> /\ ms.pc = "slices"
    /\ ms.i < Len(ms.thickness)
    /\ ms.batch < MaxBatches
    /\ ms' = ScatterRound(ms)
    /\ UNCHANGED <<arrayVars, sliced, grid, last>>

\* generate_scattered_waves is exhausted for slice i.
MsAdvance ==
    /\ ms # <<>> /\ ms.pc = "slices"
    /\ ms.i < Len(ms.thickness)
    /\ ms' = AdvancePrimary(ms)
    /\ UNCHANGED <<arrayVars, sliced, grid, last>>

\* Line 88: the outer loop is over.
MsReturn ==
    /\ ms # <<>> /\ ms.pc = "slices"
    /\ ms.i = Len(ms.thickness)
    /\ ms' = [ms EXCEPT !.pc = "done", !.ret = <<ms.measurements>>]
    /\ UNCHANGED <<arrayVars, sliced, grid, last>>

NextMs == MsBegin \/ MsScatter \/ MsAdvance \/ MsReturn

SpecMs == InitMs /\ [][NextMs]_vars

-----------------------------------------------------------------------------
(* Properties of transition_potential_multislice (checked under SpecMs).   *)

\* The primary wave after slices 0..n-1: slice k transmitted, then
\* propagated by the thickness of slice k, for k = 0, 1, ..., n-1.
ThroughSlices(wave, thickness, n) ==
    /\ Len(wave) = 2 * n
    /\ \A k \in 0..(n - 1) :
          /\ wave[2 * k + 1].op = "transmit" /\ wave[2 * k + 1].slice = k
          /\ wave[2 * k + 2].op = "propagate" /\ wave[2 * k + 2].slice = k
          /\ wave[2 * k + 2].thickness = thickness[k + 1]

MsRunning == ms # <<>> /\ ms.pc \in {"slices", "done"}

\* C19: the primary wave advances through the slices in the order
\* 0, 1, ..., n-1, each once, transmitted by slice i and then propagated by
\* the thickness of slice i; the scattered waves of slice i are generated
\* from the primary wave after exactly the slices 0..i-1 and are propagated
\* starting from slice i; at the end the primary wave has passed every slice.
C19_SequentialSlices ==
    MsRunning =>
        /\ ThroughSlices(ms.waves, ms.thickness, ms.i)
        /\ \A e \in 1..Len(ms.scattered) :
              /\ ThroughSlices(ms.scattered[e].from, ms.thickness,
                               ms.scattered[e].slice)
              /\ ms.scattered[e].start = ms.scattered[e].slice
        /\ \A e, f \in 1..Len(ms.scattered) :
              e < f => ms.scattered[e].slice <= ms.scattered[f].slice
        /\ ms.pc = "done" => ms.i = Len(ms.thickness)

\* C19 witness: a call over three slices of different thicknesses has
\* finished, with scattered waves generated at the second slice.
C19_Witness ==
    /\ ms # <<>> /\ ms.pc = "done"
    /\ ms.thickness = <<1, 2, 1>>
    /\ \E e \in 1..Len(ms.scattered) : ms.scattered[e].slice = 1

\* C20: there is one measurement per detector, in detector order, and
\* measurement j holds exactly one contribution, of detector j and summed
\* over the batch axis, for every (slice, batch) pair of scattered waves, in
\* the order they were generated, and nothing of another detector.
C20_OneMeasurementPerDetector ==
    MsRunning =>
        /\ Len(ms.measurements) = Len(ms.detectors)
        /\ \A j \in 1..Len(ms.detectors) :
              /\ Len(ms.measurements[j]) = Len(ms.scattered)
              /\ \A e \in 1..Len(ms.scattered) :
                    /\ ms.measurements[j][e].detector = ms.detectors[j]
                    /\ ms.measurements[j][e].slice = ms.scattered[e].slice
                    /\ ms.measurements[j][e].batch = ms.scattered[e].batch
                    /\ ms.measurements[j][e].wave = ms.scattered[e].wave
                    /\ ms.measurements[j][e].summed
        /\ ms.pc = "done" => ms.ret = <<ms.measurements>>

\* C20 witness: a call with two detectors has finished after two batches of
\* scattered waves.
C20_Witness ==
    /\ ms # <<>> /\ ms.pc = "done"
    /\ Len(ms.detectors) = 2
    /\ Len(ms.scattered) >= 2
    /\ Len(ms.ret[1][2]) = Len(ms.scattered)

\* No slice has been transmitted or propagated, neither for the primary
\* wave nor for scattered waves.
NoSliceProcessed(m) == m.waves = <<>> /\ m.multisliced = <<>>

\* C21: a call that raises has raised before any slice was transmitted or
\* propagated, for the primary wave and for scattered waves alike.
C21_FailFast ==
    (ms # <<>> /\ ms.pc = "raised") => NoSliceProcessed(ms)

\* The checks of lines 44-51 (waves/scan combination, transition sites) do
\* raise before any slice is processed; only the energy check of the CTF,
\* made by apply_ctf at line 74, comes after slices were processed.
EarlyChecksFailFast ==
    (ms # <<>> /\ ms.pc = "raised" /\ ms.ctf # "other_energy")
        => NoSliceProcessed(ms)

\* A CTF of another energy is reported only once a batch of scattered waves
\* has passed the slices, here after the primary wave passed slice 0 too.
LateRaise ==
    /\ ms # <<>> /\ ms.pc = "raised" /\ ms.ctf = "other_energy"
    /\ ms.waves # <<>> /\ ms.multisliced # <<>>

-----------------------------------------------------------------------------
(* Part 8: helpers of the waves builder (abtem/waves.py): the finalisation *)
(* of lazy measurements, the reduction of an ensemble and the parity of    *)
(* grid sizes.  Each is a function of its arguments; a call is recorded in *)
(* last with its arguments and its result.                                 *)

\* largest number of ensemble axes of a block array or a reduced object
MaxBlockEns == 3
\* largest grid size handed to the parity helpers
MaxGpts == 4

\* A dask chunking: one tuple of block lengths per axis.
ChunkedShape(chunks) == [k \in 1..Len(chunks) |-> SeqSum(chunks[k])]

\* What a detector declares: _out_base_shape, _out_type and whether the
\* measurement has reduce_ensemble.
Detector(name) ==
    [name |-> name,
     _out_base_shape |-> IF name = "annular" THEN <<>>
                         ELSE IF name = "segmented" THEN <<2>> ELSE <<2, 3>>,
     _out_type |-> IF name = "annular" THEN "Images"
                   ELSE IF name = "segmented" THEN "PolarMeasurements"
                   ELSE "DiffractionPatterns"]

\* Lines 105-110: the chunks handed to map_blocks, the given chunks followed
\* by one block per base axis.
MapBlocksChunks(chunks, out_shape) ==
    chunks \o [k \in 1..Len(out_shape) |-> <<out_shape[k]>>]

\* Line 99: the positions of the new axes.
new_axis(arrays, out_shape) ==
    [k \in 1..Len(out_shape) |-> Len(arrays.shape) + k - 1]

\* Lines 101-102: chunks (None is <<>>) defaults to the chunks of arrays.
DefaultChunks(chunks, arrays) ==
    IF chunks = <<>> THEN arrays.chunks ELSE chunks[1]

ChunksAccumulated(chunks, out_shape) == <<MapBlocksChunks(chunks, out_shape)>>

\* The variable chunks after one round of the loop: lines 105-110 compute
\* chunks + (...) for the call and leave the variable as it is.
ChunksAfter(chunks, out_shape) == <<chunks>>

\* Lines 95-134: the loop over the detectors, from detector i (1-based) on.
RECURSIVE FinalizeLoop(_, _, _, _, _)
FinalizeLoop(arrays, detectors, extra, chunks0, i) ==
    IF i > Len(detectors) THEN <<>>
    ELSE
    LET detector == detectors[i]
        out_shape == detector._out_base_shape
        chunks1 == DefaultChunks(chunks0, arrays)
        measurement ==
            [cls |-> detector._out_type,
             index |-> i - 1,
             chunks |-> MapBlocksChunks(chunks1, out_shape),
             new_axis |-> new_axis(arrays, out_shape),
             axes_metadata |->
                 extra
                 \o [k \in 1..Len(arrays.shape) |-> "ensemble"]
                 \o [k \in 1..Len(out_shape) |-> "base"],
             reduce_ensemble |-> TRUE]
    IN  <<measurement>>
        \o FinalizeLoop(arrays, detectors, extra,
                        ChunksAfter(chunks1, out_shape), i + 1)

\* _finalize_lazy_measurements, lines 87-136.
_finalize_lazy_measurements(arrays, detectors, extra_ensemble_axes_metadata, chunks) ==
    FinalizeLoop(arrays, detectors,
                 IF extra_ensemble_axes_metadata = <<>> THEN <<>>
                 ELSE extra_ensemble_axes_metadata[1],
                 chunks, 1)

\* An ensemble axis whose metadata carries the _squeeze mark.
MarkedAxis(label, mark) ==
    [type |-> "OrdinalAxis", values |-> <<label>>, _squeeze |-> mark]

SqueezeAllAxes(o) == [i \in 1..Len(o.meta) |-> i - 1]

\* _reduce_ensemble, lines 1012-1015: the positions of the marked axes.
SqueezeAxesOf(o) ==
    LET marked == SelectSeq(Iota(Len(o.meta)), LAMBDA i : o.meta[i]._squeeze)
    IN  [p \in 1..Len(marked) |-> marked[p] - 1]

\* _reduce_ensemble, lines 1008-1022; a list is [cls |-> "list", items].
\* Waves has no reduce_ensemble, so lines 1019-1020 do nothing for it.
RECURSIVE _reduce_ensemble(_)
_reduce_ensemble(ensemble) ==
    IF ensemble.cls = "list"
    THEN [cls |-> "list",
          items |-> [p \in 1..Len(ensemble.items) |->
                        _reduce_ensemble(ensemble.items[p])]]
    ELSE squeeze(ensemble, <<SqueezeAxesOf(ensemble)>>).obj

\* _ensure_parity, lines 139-147.
_ensure_parity(n, even, v) ==
    IF n % 2 = 0 /\ ~even THEN n + v
    ELSE IF ~(n % 2 = 0) /\ even THEN n + v
    ELSE n

\* _ensure_parity_of_gpts, lines 150-167; ret is <<the tuple>>, or <<>> for
\* None when the function ends without a return statement.
_ensure_parity_of_gpts(new_gpts, old_gpts, parity) ==
    IF parity = "same"
    THEN [raised |-> "none",
          ret |-> <<<<_ensure_parity(new_gpts[1], old_gpts[1] % 2 = 0, 1),
                      _ensure_parity(new_gpts[2], old_gpts[2] % 2 = 0, 1)>>>>]
    ELSE IF parity = "odd"
    THEN [raised |-> "none",
          ret |-> <<<<_ensure_parity(new_gpts[1], FALSE, 1),
                      _ensure_parity(new_gpts[2], FALSE, 1)>>>>]
    ELSE IF parity = "even"
    THEN [raised |-> "none",
          ret |-> <<<<_ensure_parity(new_gpts[1], TRUE, 1),
                      _ensure_parity(new_gpts[2], TRUE, 1)>>>>]
    ELSE IF parity # "none"
    THEN [raised |-> "ValueError", ret |-> <<>>]
    ELSE [raised |-> "none", ret |-> <<>>]

-----------------------------------------------------------------------------
(* The calls of the helpers.                                               *)

\* The chunkings of one axis of a block array.
AxisChunks == {<<1>>, <<2>>, <<1, 1>>}

BlockArrays ==
    {[shape |-> ChunkedShape(c), chunks |-> c] :
        c \in SeqUpTo(AxisChunks, MaxBlockEns)}

DetectorObjs ==
    {[j \in 1..Len(d) |-> Detector(d[j])] : d \in DetectorLists}

\* The objects handed to _reduce_ensemble: every ensemble axis has a length
\* and a mark, the base axes have length 1 or 2.
ReduceAxes ==
    {[n |-> n, mark |-> mark] : n \in 1..MaxDim, mark \in BOOLEAN}

ReduceObj(axes, base) ==
    [cls |-> "Waves",
     shape |-> [p \in 1..Len(axes) |-> axes[p].n] \o base,
     meta |-> [p \in 1..Len(axes) |-> MarkedAxis(p, axes[p].mark)],
     lazy |-> TRUE,
     data |-> 0,
     fails |-> FALSE,
     kwargs |-> <<>>]

ReduceObjs ==
    {ReduceObj(axes, base) :
        axes \in SeqUpTo(ReduceAxes, MaxBlockEns),
        base \in {<<1, 1>>, <<1, 2>>, <<2, 2>>}}

ReduceLists ==
    {[cls |-> "list", items |-> <<ReduceObj(a, <<1, 1>>), ReduceObj(b, <<1, 2>>)>>] :
        a \in SeqUpTo(ReduceAxes, 1), b \in SeqUpTo(ReduceAxes, MaxEns)}

Parities == {"same", "even", "odd", "none", "both"}

InitHelpers ==
    /\ InitArrays
    /\ InitOthers
    /\ last = NoCall

FinalizeLazyMeasurements ==
    /\ last = NoCall
    /\ \E arrays \in BlockArrays, detectors \in DetectorObjs,
          given \in BOOLEAN, extra \in {<<>>, <<<<"extra">>>>} :
        LET chunks == IF given
                      THEN <<[k \in 1..Len(arrays.shape) |-> <<arrays.shape[k]>>]>>
                      ELSE <<>>
        IN  last' = [op |-> "_finalize_lazy_measurements",
                     arrays |-> arrays, detectors |-> detectors,
                     chunks |-> chunks, extra |-> extra,
                     raised |-> "none",
                     ret |-> _finalize_lazy_measurements(arrays, detectors,
                                                         extra, chunks)]
    /\ UNCHANGED <<arrayVars, others>>

ReduceEnsemble ==
    /\ last = NoCall
    /\ \E ensemble \in ReduceObjs \cup ReduceLists :
        last' = [op |-> "_reduce_ensemble", ensemble |-> ensemble,
                 raised |-> "none", ret |-> _reduce_ensemble(ensemble)]
    /\ UNCHANGED <<arrayVars, others>>

EnsureParityOfGpts ==
    /\ last = NoCall
    /\ \E new_gpts \in (0..MaxGpts) \X (0..MaxGpts),
          old_gpts \in (1..MaxGpts) \X (1..MaxGpts),
          parity \in Parities :
        LET r == _ensure_parity_of_gpts(new_gpts, old_gpts, parity)
        IN  last' = [op |-> "_ensure_parity_of_gpts",
                     new_gpts |-> new_gpts, old_gpts |-> old_gpts,
                     parity |-> parity,
                     raised |-> r.raised, ret |-> r.ret]
    /\ UNCHANGED <<arrayVars, others>>

NextHelpers ==
    FinalizeLazyMeasurements \/ ReduceEnsemble \/ EnsureParityOfGpts \/ Proceed

SpecHelpers == InitHelpers /\ [][NextHelpers]_vars

-----------------------------------------------------------------------------
(* Properties of the helpers (checked under SpecHelpers).                  *)

AxesToKeep(o) ==
    SelectSeq(Iota(Len(o.shape) - 2),
              LAMBDA i : o.shape[i] > 1 \/ ~o.meta[i]._squeeze)

Reduced(o, r) ==
    LET kept == AxesToKeep(o)
    IN  /\ r.cls = o.cls
        /\ Len(r.shape) = Len(kept) + 2
        /\ Len(r.meta) = Len(kept)
        /\ \A p \in 1..Len(kept) :
              r.shape[p] = o.shape[kept[p]] /\ r.meta[p] = o.meta[kept[p]]
        /\ \A b \in 1..2 :
              r.shape[Len(kept) + b] = o.shape[Len(o.shape) - 2 + b]

HasParity(n, parity, old) ==
    IF parity = "odd" THEN n % 2 = 1
    ELSE IF parity = "even" THEN n % 2 = 0
    ELSE n % 2 = old % 2

\* C24: for 'odd', 'even' and 'same' _ensure_parity_of_gpts returns grid
\* sizes of the requested parity that differ from the input by at most 1
\* and are unchanged when the parity already matches; for 'none' it returns
\* the input grid sizes; for any other value it raises ValueError.
C24_Parity ==
    last.op = "_ensure_parity_of_gpts" =>
        IF last.parity \in {"odd", "even", "same"}
        THEN /\ last.raised = "none"
             /\ last.ret # <<>>
             /\ \A d \in 1..2 :
                   /\ HasParity(last.ret[1][d], last.parity, last.old_gpts[d])
                   /\ Abs(last.ret[1][d] - last.new_gpts[d]) <= 1
                   /\ HasParity(last.new_gpts[d], last.parity, last.old_gpts[d])
                          => last.ret[1][d] = last.new_gpts[d]
        ELSE IF last.parity = "none"
        THEN last.raised = "none" /\ last.ret = <<last.new_gpts>>
        ELSE last.raised = "ValueError"

\* The part of C24 that holds: every value but 'none'.
ParityButNone ==
    (last.op = "_ensure_parity_of_gpts" /\ last.parity = "none") \/ C24_Parity

-----------------------------------------------------------------------------
(* Part 9: the representation of Waves (abtem/waves.py, lines 524-674):    *)
(* normalize, ensure_reciprocal_space, ensure_real_space and phase_shift.  *)
(*                                                                         *)
(* obj is the receiver, a record of the values its array holds, its        *)
(* reciprocal_space flag and whether it is lazy.  The values of an array   *)
(* are the sequence of the operations applied to the values it was built   *)
(* from; a transform followed by its inverse gives the values back.        *)

\* longest sequence of operations an array is followed through
MaxOps == 3

Inverse(op) ==
    IF op = "fft2" THEN "ifft2" ELSE IF op = "ifft2" THEN "fft2" ELSE "none"

\* The values of op(array).
Apply(op, array) ==
    IF array # <<>> /\ array[Len(array)] = Inverse(op)
    THEN SubSeq(array, 1, Len(array) - 1)
    ELSE Append(array, op)

NewWaves(array, reciprocal_space, lazy) ==
    [array |-> array, reciprocal_space |-> reciprocal_space, lazy |-> lazy]

\* The outcome of a method: the receiver after the call, the object
\* returned, and whether the object returned is the receiver itself.
Outcome(raised, self, ret, same) ==
    [raised |-> raised, self |-> self, ret |-> ret, same |-> same]

\* fft2(x, overwrite_x) and ifft2(x, overwrite_x): with overwrite_x the
\* values of x may be destroyed (in_place) or not.
Overwritten(w, op, overwrite_x, in_place) ==
    IF overwrite_x /\ in_place THEN [w EXCEPT !.array = Apply(op, w.array)]
    ELSE w

\* ensure_reciprocal_space, lines 605-626.
ensure_reciprocal_space(w, overwrite_x, in_place) ==
    IF w.reciprocal_space THEN Outcome("none", w, w, TRUE)
    ELSE Outcome("none", Overwritten(w, "fft2", overwrite_x, in_place),
                 NewWaves(Apply("fft2", w.array), TRUE, w.lazy), FALSE)

\* ensure_real_space, lines 628-650.
ensure_real_space(w, overwrite_x, in_place) ==
    IF ~w.reciprocal_space THEN Outcome("none", w, w, TRUE)
    ELSE Outcome("none", Overwritten(w, "ifft2", overwrite_x, in_place),
                 NewWaves(Apply("ifft2", w.array), FALSE, w.lazy), FALSE)

\* Lines 547-551: waves._array /= f, or waves._array = waves._array / f;
\* either way the object waves holds the normalized values afterwards.
NormalizedArray(w) == [w EXCEPT !.array = Apply("normalize", w.array)]

\* normalize, lines 524-563, for an array in memory.
normalize_eager(w, space, overwrite_x, in_place) ==
    IF space = "reciprocal"
    THEN LET r == ensure_reciprocal_space(w, overwrite_x, in_place)
             normalized == NormalizedArray(r.ret)
             self == IF r.same THEN normalized ELSE r.self
         IN  IF ~w.reciprocal_space
             THEN LET b == ensure_real_space(normalized, overwrite_x, in_place)
                  IN  Outcome("none", self, b.ret, FALSE)
             ELSE Outcome("none", self, normalized, r.same)
    ELSE IF space = "real"
    THEN Outcome("NotImplementedError", w, w, FALSE)
    ELSE Outcome("ValueError", w, w, FALSE)

\* normalize, lines 524-563.  A lazy receiver is handed to apply_transform
\* with _WaveRenormalization (lines 328-331), which normalizes the computed
\* blocks and leaves the receiver as it is.
normalize(w, space, overwrite_x, in_place) ==
    IF w.lazy
    THEN LET block == normalize_eager([w EXCEPT !.lazy = FALSE],
                                      "reciprocal", FALSE, FALSE)
         IN  Outcome("none", w, [block.ret EXCEPT !.lazy = TRUE], FALSE)
    ELSE normalize_eager(w, space, overwrite_x, in_place)

\* phase_shift, line 673: d["reciprocal_space"] = False.
PhaseShiftFlag(w) == FALSE

\* phase_shift, lines 652-674.
phase_shift(w) ==
    Outcome("none", w,
            NewWaves(Apply("phase_shift", w.array), PhaseShiftFlag(w), w.lazy),
            FALSE)

InitSpace ==
    /\ obj \in {NewWaves(<<>>, r, l) : r \in BOOLEAN, l \in BOOLEAN}
    /\ wrappers = <<>>
    /\ waves = NoWaves
    /\ store = NoStore
    /\ InitOthers
    /\ last = NoCall

SpaceCall(op, space, overwrite_x, r) ==
    [op |-> op, before |-> obj, space |-> space, overwrite_x |-> overwrite_x,
     raised |-> r.raised, ret |-> r.ret, same |-> r.same]

Normalize ==
    /\ last = NoCall
    /\ Len(obj.array) < MaxOps
    /\ \E space \in {"reciprocal", "real", "fourier"},
          overwrite_x \in BOOLEAN, in_place \in BOOLEAN :
        LET r == normalize(obj, space, overwrite_x, in_place)
        IN  /\ obj' = r.self
            /\ last' = SpaceCall("normalize", space, overwrite_x, r)
    /\ UNCHANGED <<wrappers, waves, store, others>>

EnsureReciprocalSpace ==
    /\ last = NoCall
    /\ Len(obj.array) < MaxOps
    /\ \E overwrite_x \in BOOLEAN, in_place \in BOOLEAN :
        LET r == ensure_reciprocal_space(obj, overwrite_x, in_place)
        IN  /\ obj' = r.self
            /\ last' = SpaceCall("ensure_reciprocal_space", "", overwrite_x, r)
    /\ UNCHANGED <<wrappers, waves, store, others>>

EnsureRealSpace ==
    /\ last = NoCall
    /\ Len(obj.array) < MaxOps
    /\ \E overwrite_x \in BOOLEAN, in_place \in BOOLEAN :
        LET r == ensure_real_space(obj, overwrite_x, in_place)
        IN  /\ obj' = r.self
            /\ last' = SpaceCall("ensure_real_space", "", overwrite_x, r)
    /\ UNCHANGED <<wrappers, waves, store, others>>

PhaseShift ==
    /\ last = NoCall
    /\ Len(obj.array) < MaxOps
    /\ LET r == phase_shift(obj)
       IN  /\ obj' = r.self
           /\ last' = SpaceCall("phase_shift", "", FALSE, r)
    /\ UNCHANGED <<wrappers, waves, store, others>>

\* The caller goes on with the waves the call returned.
Adopt ==
    /\ last # NoCall
    /\ last.raised = "none"
    /\ obj' = last.ret
    /\ last' = NoCall
    /\ UNCHANGED <<wrappers, waves, store, others>>

NextSpace ==
    \/ Normalize \/ EnsureReciprocalSpace \/ EnsureRealSpace \/ PhaseShift
    \/ Adopt \/ Proceed

SpecSpace == InitSpace /\ [][NextSpace]_vars

-----------------------------------------------------------------------------
(* Properties of the representation of Waves (checked under SpecSpace).    *)

\* C25: after normalize with overwrite_x=False the receiver holds the array
\* values it held before, in real space and in reciprocal space, and the
\* waves returned are in the space of the receiver.
C25_NormalizeKeepsReceiver ==
    (last.op = "normalize" /\ ~last.overwrite_x /\ last.raised = "none")
        => /\ obj.array = last.before.array
           /\ last.ret.reciprocal_space = last.before.reciprocal_space

\* The part of C25 that holds: receivers in real space, and lazy receivers.
NormalizeRealSpace ==
    (last.op = "normalize" /\ last.before.reciprocal_space /\ ~last.before.lazy)
        \/ C25_NormalizeKeepsReceiver

\* C27: the waves phase_shift returns have the reciprocal_space flag of the
\* receiver, and the receiver is unchanged.
C27_PhaseShiftKeepsSpace ==
    last.op = "phase_shift"
        => /\ last.ret.reciprocal_space = last.before.reciprocal_space
           /\ obj = last.before

\* The part of C27 that holds: receivers in real space.
PhaseShiftRealSpace ==
    (last.op = "phase_shift" /\ last.before.reciprocal_space)
        \/ C27_PhaseShiftKeepsSpace

-----------------------------------------------------------------------------
(* Part 10: linear_scaling_transition_multislice                           *)
(* (abtem/ionization/multislice.py, lines 91-161), one step per round of   *)
(* its loops.  ms holds the position in the function, the slices each      *)
(* scattering matrix has been propagated through, in the order they were   *)
(* passed, and what the site loops have seen.                              *)

\* largest number of transition sites of a slice
MaxSites == 2

\* SMatrix.multislice(potential, start, stop) and streaming_multislice: the
\* scattering matrix is propagated through the slices start..stop-1.
SMatrix_multislice(passed, start, stop) ==
    passed \o [k \in 1..(stop - start) |-> start + k - 1]

LsStartZero(i) == 0

\* Lines 117-121: start=max(i - 1, 0).
LsStart(i) == Max(i - 1, 0)

\* Lines 116-121: S1 and S2 are advanced at the head of round i.
LsAdvanced(m) ==
    [m EXCEPT
       !.S1 = SMatrix_multislice(m.S1, LsStart(m.i), m.i),
       !.S2 = SMatrix_multislice(m.S2, LsStart(m.i), m.i),
       !.advanced = Append(m.advanced,
                           [i |-> m.i, start |-> LsStart(m.i), stop |-> m.i,
                            call |-> IF m.stream THEN "streaming_multislice"
                                     ELSE "multislice"])]

\* Lines 104-113: the scattering matrices are built without passing a
\* slice, and the images start at zero.
LsBeginCall(n_potential, stream) ==
    [pc |-> "head", n |-> n_potential, stream |-> stream, i |-> 0, site |-> 0,
     S1 |-> <<>>, S2 |-> <<>>, advanced |-> <<>>, seen |-> <<>>,
     images |-> <<>>, ret |-> <<>>]

InitLs ==
    /\ InitArrays
    /\ sliced = <<>>
    /\ grid = <<>>
    /\ ms = <<>>
    /\ last = NoCall

LsBegin ==
    /\ ms = <<>>
    /\ \E n \in 1..MaxSlices, stream \in BOOLEAN :
        ms' = LsBeginCall(n, stream)
    /\ UNCHANGED <<arrayVars, sliced, grid, last>>

\* Lines 114-123: the head of round i, up to the start of the site loop.
LsHead ==
    /\ ms # <<>> /\ ms.pc = "head"
    /\ ms.i < ms.n
    /\ LET m == LsAdvanced(ms)
       IN  ms' = [m EXCEPT
                    !.pc = "sites", !.site = 0,
                    !.seen = Append(m.seen, [i |-> m.i, S1 |-> m.S1, S2 |-> m.S2])]
    /\ UNCHANGED <<arrayVars, sliced, grid, last>>

\* Lines 125-156: one transition site of slice i adds to the images.
LsSite ==
    /\ ms # <<>> /\ ms.pc = "sites"
    /\ ms.site < MaxSites
    /\ ms' = [ms EXCEPT
                !.site = ms.site + 1,
                !.images = Append(ms.images, [i |-> ms.i, S1 |-> ms.S1,
                                              S2 |-> ms.S2])]
    /\ UNCHANGED <<arrayVars, sliced, grid, last>>

\* The sites of slice i are exhausted.
LsNextSlice ==
    /\ ms # <<>> /\ ms.pc = "sites"
    /\ ms' = [ms EXCEPT !.pc = "head", !.i = ms.i + 1]
    /\ UNCHANGED <<arrayVars, sliced, grid, last>>

\* Lines 158-161: the loop is over, the images are returned.
LsReturn ==
    /\ ms # <<>> /\ ms.pc = "head"
    /\ ms.i = ms.n
    /\ ms' = [ms EXCEPT !.pc = "done", !.ret = <<ms.images>>]
    /\ UNCHANGED <<arrayVars, sliced, grid, last>>

NextLs == LsBegin \/ LsHead \/ LsSite \/ LsNextSlice \/ LsReturn

SpecLs == InitLs /\ [][NextLs]_vars

-----------------------------------------------------------------------------
(* Properties of linear_scaling_transition_multislice (under SpecLs).      *)

\* C28: at the start of the site loop of round i, for every i in
\* 0..num_slices-1, S1 has been propagated through exactly the slices
\* 0..i-1, each once and in increasing order, the successive calls cover
\* contiguous ranges that do not overlap, and S2 has been advanced over the
\* same ranges in the same round.
C28_ContiguousSlices ==
    ms # <<>> =>
        /\ \A e \in 1..Len(ms.seen) :
              /\ ms.seen[e].i = e - 1
              /\ ms.seen[e].S1 = [k \in 1..(e - 1) |-> k - 1]
              /\ ms.seen[e].S2 = ms.seen[e].S1
        /\ \A e \in 1..Len(ms.advanced) :
              /\ ms.advanced[e].start <= ms.advanced[e].stop
              /\ e > 1 => ms.advanced[e].start = ms.advanced[e - 1].stop
        /\ \A e \in 1..Len(ms.images) :
              ms.images[e].S1 = [k \in 1..ms.images[e].i |-> k - 1]
        /\ ms.pc = "done" => Len(ms.seen) = ms.n

\* C28 witness: a call over three slices has finished, with a site seen in
\* the last slice.
C28_Witness ==
    /\ ms # <<>> /\ ms.pc = "done"
    /\ ms.n = 3
    /\ \E e \in 1..Len(ms.images) : ms.images[e].i = 2

-----------------------------------------------------------------------------
(* Part 11: Waves of abtem/waves/waves.py: __init__, copy, multislice and  *)
(* __getitem__.  waves is the receiver, last the record of the call.       *)

\* largest number of configurations of a potential
MaxConfigs == 3

\* The default of antialias_aperture, 2 / 3.
TwoThirds == [t |-> "frac", v |-> <<2, 3>>]

\* frozen_phonons_axes_metadata of abtem.core.axes.
frozen_phonons_axes_metadata == Dict(<<"type", "ensemble", "label", "frozen_phonons">>)

\* _validate_extra_axes_metadata: None (<<>>) becomes an entry of unknown
\* type for every ensemble axis.
_validate_extra_axes_metadata(shape, extra) ==
    IF extra = <<>>
    THEN List([k \in 1..(Len(shape) - 2) |-> Dict(<<"type", "unknown">>)])
    ELSE extra[1]

\* Waves.__init__, lines 50-75; an argument left out is <<>>, given <<v>>.
Waves_init(array, energy, extent, tilt, antialias_aperture, extra, metadata) ==
    IF Len(array.shape) < 2
    THEN [raised |-> "RuntimeError", ret |-> <<>>]
    ELSE [raised |-> "none",
          ret |-> <<[shape |-> array.shape, lazy |-> array.lazy,
                     data |-> array.data, fails |-> FALSE,
                     energy |-> IF energy = <<>> THEN NoneVal ELSE energy[1],
                     extent |-> IF extent = <<>> THEN NoneVal ELSE extent[1],
                     tilt |-> IF tilt = <<>> THEN Tuple(<<0, 0>>) ELSE tilt[1],
                     antialias_aperture |->
                         IF antialias_aperture = <<>> THEN TwoThirds
                         ELSE antialias_aperture[1],
                     extra_axes_metadata |->
                         _validate_extra_axes_metadata(array.shape, extra),
                     metadata |-> IF metadata = <<>> THEN Dict(<<>>)
                                  ELSE metadata[1]]>>]

Waves_array(w) == [shape |-> w.shape, lazy |-> w.lazy, data |-> w.data]

Waves_copyShared(w, copy_array) ==
    [ret |-> Waves_init(Waves_array(w), <<w.energy>>, <<w.extent>>, <<w.tilt>>,
                        <<w.antialias_aperture>>, <<w.extra_axes_metadata>>,
                        <<>>).ret[1],
     shared |-> TRUE]

\* Waves.copy, lines 337-348: the new object, and whether its array is the
\* array of the receiver.
Waves_copy(w, copy_array) ==
    [ret |-> Waves_init(Waves_array(w), <<w.energy>>, <<w.extent>>, <<w.tilt>>,
                        <<w.antialias_aperture>>, <<w.extra_axes_metadata>>,
                        <<>>).ret[1],
     shared |-> ~copy_array]

\* multislice(waves, p) of abtem.waves.multislice: the waves handed in are
\* propagated through configuration p, in their own array, and returned.
\* The values of an array are the values it was built from followed by the
\* configurations it has been propagated through.
multislice_through(w, p) == [w EXCEPT !.data = Append(w.data, p)]

\* Lines 255-257: the loop over the configurations from the k-th on; self is
\* the receiver as it is when the round starts.
RECURSIVE MultisliceLoop(_, _, _)
MultisliceLoop(self, configurations, k) ==
    IF k > Len(configurations) THEN [self |-> self, exit_waves |-> <<>>]
    ELSE LET c == Waves_copy(self, TRUE)
             exit == multislice_through(c.ret, configurations[k])
             after == IF c.shared THEN [self EXCEPT !.data = exit.data] ELSE self
             rest == MultisliceLoop(after, configurations, k + 1)
         IN  [self |-> rest.self, exit_waves |-> <<exit>> \o rest.exit_waves]

\* Waves.multislice, lines 234-274.  check_is_defined raises when the
\* energy is not set.
Waves_multislice(w, configurations) ==
    IF w.energy = NoneVal
    THEN [raised |-> "RuntimeError", self |-> w, ret |-> <<>>]
    ELSE
    LET loop == MultisliceLoop(w, configurations, 1)
        exit_waves == loop.exit_waves
        self == loop.self
    IN  IF Len(exit_waves) > 1
        THEN LET array == [shape |-> <<Len(exit_waves)>> \o exit_waves[1].shape,
                           lazy |-> self.lazy,
                           data |-> [k \in 1..Len(exit_waves) |-> exit_waves[k].data]]
                 r == Waves_init(array, <<self.energy>>, <<self.extent>>,
                                 <<self.tilt>>, <<TwoThirds>>,
                                 <<List(<<frozen_phonons_axes_metadata>>
                                        \o self.extra_axes_metadata.v)>>,
                                 <<self.metadata>>)
             IN  [raised |-> r.raised, self |-> self, ret |-> r.ret]
        ELSE IF Len(exit_waves) = 0
        THEN [raised |-> "IndexError", self |-> self, ret |-> <<>>]
        ELSE [raised |-> "none", self |-> self, ret |-> <<exit_waves[1]>>]

\* Waves.__getitem__, lines 323-326; item is the tuple of the items.
Waves_getitem(w, item) ==
    IF Len(w.shape) <= 2
    THEN [raised |-> "RuntimeError", ret |-> <<>>]
    ELSE IF NumpyGetItemRaises(w.shape, item)
    THEN [raised |-> "IndexError", ret |-> <<>>]
    ELSE Waves_init([shape |-> NumpyGetItemShape(w.shape, item),
                     lazy |-> w.lazy,
                     data |-> [of |-> w.data, item |-> item]],
                    <<w.energy>>, <<w.extent>>, <<>>, <<>>, <<>>, <<>>)

-----------------------------------------------------------------------------
(* The calls on Waves.                                                     *)

PositionsAxis == Dict(<<"type", "positions">>)

WvObjs ==
    {[MakeWaves(sh.shape, l, FALSE, e, md, sh.extra) EXCEPT
         !.data = <<d>>, !.tilt = t, !.antialias_aperture = a] :
        sh \in {[shape |-> <<2, 2>>, extra |-> List(<<>>)],
                [shape |-> <<2, 2, 2>>, extra |-> List(<<PositionsAxis>>)]},
        l \in BOOLEAN, e \in {NoneVal, Num(100)},
        md \in {Dict(<<>>), Dict(<<"label", "a">>)},
        d \in 0..MaxVal,
        t \in {Tuple(<<0, 0>>), Tuple(<<1, 2>>)},
        a \in {TwoThirds, Num(1)}}

\* The configurations of a potential, in the order the potential gives them.
Configurations ==
    {c \in SeqUpTo(1..MaxConfigs, MaxConfigs) :
        Len(c) >= 1 /\ Cardinality(Range(c)) = Len(c)}

WvItems == {IntItem(0), IntItem(1), SliceItem(<<>>, <<>>), SliceItem(<<>>, <<1>>)}

InitWv ==
    /\ obj = NoObj
    /\ wrappers = <<>>
    /\ waves \in WvObjs
    /\ store = NoStore
    /\ InitOthers
    /\ last = NoCall

WvMultislice ==
    /\ last = NoCall
    /\ \E configurations \in Configurations :
        LET r == Waves_multislice(waves, configurations)
        IN  /\ waves' = r.self
            /\ last' = [op |-> "multislice", before |-> waves,
                        configurations |-> configurations, item |-> <<>>,
                        raised |-> r.raised, ret |-> r.ret]
    /\ UNCHANGED <<obj, wrappers, store, others>>

WvGetItem ==
    /\ last = NoCall
    /\ \E item \in SeqUpTo(WvItems, 2) \ {<<>>} :
        LET r == Waves_getitem(waves, item)
        IN  last' = [op |-> "__getitem__", before |-> waves,
                     configurations |-> <<>>, item |-> item,
                     raised |-> r.raised, ret |-> r.ret]
    /\ UNCHANGED <<arrayVars, others>>

WvCopy ==
    /\ last = NoCall
    /\ \E copy_array \in BOOLEAN :
        LET r == Waves_copy(waves, copy_array)
        IN  last' = [op |-> "copy", before |-> waves,
                     configurations |-> <<>>, item |-> <<>>,
                     raised |-> "none", ret |-> <<r.ret>>]
    /\ UNCHANGED <<arrayVars, others>>

NextWv == WvMultislice \/ WvGetItem \/ WvCopy \/ Proceed

SpecWv == InitWv /\ [][NextWv]_vars

-----------------------------------------------------------------------------
(* Properties of Waves (checked under SpecWv).                             *)

\* C29: Waves.multislice leaves the array of the receiver as it is; the
\* result for a configuration is the entrance wave propagated through that
\* configuration alone, whatever the other configurations and their order;
\* with more than one configuration the result has a leading frozen-phonon
\* axis with one entry per configuration, in their order, and with one
\* configuration it is the single exit wave, with no extra axis.
C29_IndependentConfigurations ==
    (last.op = "multislice" /\ last.raised = "none") =>
        LET n == Len(last.configurations)
            w == last.before
            r == last.ret[1]
        IN  /\ waves.data = w.data /\ waves.shape = w.shape
            /\ IF n > 1
               THEN /\ r.shape = <<n>> \o w.shape
                    /\ r.extra_axes_metadata.v =
                           <<frozen_phonons_axes_metadata>>
                               \o w.extra_axes_metadata.v
                    /\ \A k \in 1..n :
                          r.data[k] = Append(w.data, last.configurations[k])
               ELSE /\ r.shape = w.shape
                    /\ r.extra_axes_metadata = w.extra_axes_metadata
                    /\ r.data = Append(w.data, last.configurations[1])

\* C29 witness: a run over three configurations given in the order 2, 3, 1.
C29_Witness ==
    /\ last.op = "multislice" /\ last.raised = "none"
    /\ last.configurations = <<2, 3, 1>>
    /\ Len(last.before.shape) = 3
    /\ Len(last.ret[1].shape) = 4

\* The integer items among the first n items.
IntItemsIn(item, n) == {p \in 1..Min(Len(item), n) : item[p].k = "int"}

\* C30: Waves.__getitem__ raises RuntimeError when the waves have no
\* ensemble axis, never indexes the two base axes, and the waves returned
\* keep the receiver's energy, extent, tilt, antialias aperture and the
\* metadata of the ensemble axes that remain.
C30_GetItemKeepsDescription ==
    last.op = "__getitem__" =>
        LET w == last.before
            ens == Len(w.shape) - 2
        IN  /\ ens = 0 => last.raised = "RuntimeError"
            /\ Len(last.item) > ens => last.raised # "none"
            /\ last.raised = "none" =>
                  LET r == last.ret[1]
                      kept == SelectSeq(Iota(ens),
                                        LAMBDA p : p \notin IntItemsIn(last.item, ens))
                  IN  /\ r.energy = w.energy
                      /\ r.extent = w.extent
                      /\ r.tilt = w.tilt
                      /\ r.antialias_aperture = w.antialias_aperture
                      /\ r.extra_axes_metadata.v =
                             [p \in 1..Len(kept) |->
                                 w.extra_axes_metadata.v[kept[p]]]

\* The part of C30 that holds: without an ensemble axis the call raises
\* RuntimeError, and the waves returned have the energy and the extent of
\* the receiver.
GetItemKeepsEnergy ==
    last.op = "__getitem__" =>
        /\ Len(last.before.shape) = 2 => last.raised = "RuntimeError"
        /\ last.raised = "none" =>
              /\ last.ret[1].energy = last.before.energy
              /\ last.ret[1].extent = last.before.extent

====
